---- MODULE Spec2Model ----
(***************************************************************************)
(* Archipelago BFT consensus (Fiono11/archipelago).                        *)
(* Model of consensus/src/bft_archipelago.rs and src/structs.rs.           *)
(***************************************************************************)
EXTENDS Integers, Sequences, FiniteSets, TLC

(***************************************************************************)
(* Data model (src/structs.rs)                                             *)
(*                                                                         *)
(* The code clones messages by value: a State holds the broadcast it       *)
(* cites, a Broadcast holds the responses of its certificate.  The model   *)
(* shares equal messages: heap.b and heap.r list every broadcast and every *)
(* response sent so far, each once, and a nested message is held as its    *)
(* place in the list.  Two places are equal exactly when the messages are. *)
(***************************************************************************)
VARIABLES heap

BroadcastRef(b) == CHOOSE k \in 1 .. Len(heap.b) : heap.b[k] = b
ResponseRef(r) == CHOOSE k \in 1 .. Len(heap.r) : heap.r[k] = r
Bc(ref) == heap.b[ref]
Rs(ref) == heap.r[ref]

\* enum Step { R, A, B }
Step == {"R", "A", "B"}

\* discriminant of a Step, as fed to the hasher by #[derive(Hash)]
StepDiscriminant(s) == CASE s = "R" -> 0 [] s = "A" -> 1 [] s = "B" -> 2

\* Option<bool>
FlagNone == "None"
FlagTrue == "SomeTrue"
FlagFalse == "SomeFalse"
Flags == {FlagNone, FlagTrue, FlagFalse}
SomeFlag(b) == IF b THEN FlagTrue ELSE FlagFalse

\* Option<Vec<Response>>
CertNone == [some |-> FALSE, rs |-> <<>>]
\* a certificate compiled without the last of the responses
CertSomeShort(rs) ==
    [some |-> TRUE, rs |-> [k \in 1 .. Len(rs) - 1 |-> ResponseRef(rs[k])]]
CertSome(rs) == [some |-> TRUE, rs |-> [k \in 1 .. Len(rs) |-> ResponseRef(rs[k])]]

\* Broadcast::new
NewBroadcast(sender, step, value, flag, rank, cert) ==
    [sender |-> sender, step |-> step, value |-> value, flag |-> flag,
     rank |-> rank, previous_step_responses |-> cert]

\* Response::new
NewResponse(sender, step, rank, state) ==
    [sender |-> sender, step |-> step, rank |-> rank, state |-> state]

\* State::new ; value is one of RValue / AValue / BValue
NewState(value, broadcast) ==
    [value |-> value, broadcast |-> BroadcastRef(broadcast)]

\* enum Value { RValue(RValue), AValue(AValue), BValue(BValue) }
MkRValue(rank, value) == [kind |-> "RValue", rank |-> rank, value |-> value]
MkAValue(value) == [kind |-> "AValue", value |-> value]
MkBValue(value, flag) == [kind |-> "BValue", value |-> value, flag |-> flag]

\* enum Decision { Adopt(i64), Commit(i64) }
Adopt(v) == [kind |-> "Adopt", value |-> v]
Commit(v) == [kind |-> "Commit", value |-> v]

\* impl Ord for RValue: by rank, then by value
RValueLess(x, y) == x.rank < y.rank \/ (x.rank = y.rank /\ x.value < y.value)
RValueLeq(x, y) == x = y \/ RValueLess(x, y)
\* the register overwritten with the value of the broadcast
RValueLatest(x, y) == x
\* std::cmp::max(x, y): returns y when the two compare equal
RValueMax(x, y) == IF RValueLess(y, x) THEN x ELSE y

(***************************************************************************)
(* 64-bit words as four 16-bit limbs, least significant first.             *)
(* DefaultHasher is SipHash-1-3 with the key (0, 0).                       *)
(***************************************************************************)
Limb == 65536

\* two's complement of an i64 of small magnitude
ToU64(n) == IF n >= 0 THEN <<n % Limb, (n \div Limb) % Limb, 0, 0>>
            ELSE <<Limb + n, Limb - 1, Limb - 1, Limb - 1>>

\* Operands are bound to their values once (x \in {e}) before they are used.
Pow2(n) == CASE n = 0 -> 1 [] n = 1 -> 2 [] n = 2 -> 4 [] n = 3 -> 8
             [] n = 4 -> 16 [] n = 5 -> 32 [] n = 6 -> 64 [] n = 7 -> 128
             [] n = 8 -> 256 [] n = 9 -> 512 [] n = 10 -> 1024 [] n = 11 -> 2048
             [] n = 12 -> 4096 [] n = 13 -> 8192 [] n = 14 -> 16384
             [] n = 15 -> 32768 [] n = 16 -> 65536

\* bit i of a xor b, in place
XorBit(a, b, i) == (((a \div Pow2(i)) + (b \div Pow2(i))) % 2) * Pow2(i)

Xor16(a, b, n) ==
    XorBit(a, b, 0) + XorBit(a, b, 1) + XorBit(a, b, 2) + XorBit(a, b, 3)
    + XorBit(a, b, 4) + XorBit(a, b, 5) + XorBit(a, b, 6) + XorBit(a, b, 7)
    + XorBit(a, b, 8) + XorBit(a, b, 9) + XorBit(a, b, 10) + XorBit(a, b, 11)
    + XorBit(a, b, 12) + XorBit(a, b, 13) + XorBit(a, b, 14) + XorBit(a, b, 15)

XorLimbs(a, b) == <<Xor16(a[1], b[1], 16), Xor16(a[2], b[2], 16),
                    Xor16(a[3], b[3], 16), Xor16(a[4], b[4], 16)>>

XorU64(x, y) == CHOOSE r \in {XorLimbs(a, b) : a \in {x}, b \in {y}} : TRUE

\* wrapping_add
AddU64(x, y) ==
    CHOOSE r \in
      {<<s1 % Limb, s2 % Limb, s3 % Limb, s4 % Limb>> :
         s1 \in {x[1] + y[1]},
         s2 \in {x[2] + y[2] + ((x[1] + y[1]) \div Limb)},
         s3 \in {x[3] + y[3] + ((x[2] + y[2] + ((x[1] + y[1]) \div Limb)) \div Limb)},
         s4 \in {x[4] + y[4] + ((x[3] + y[3] + ((x[2] + y[2]
                     + ((x[1] + y[1]) \div Limb)) \div Limb)) \div Limb)}} : TRUE

\* shift the limbs l left by 0 < s < 16 bits, bits wrapping around
RotlBits(l, s) ==
    <<((l[1] * Pow2(s)) % Limb) + (l[4] \div Pow2(16 - s)),
      ((l[2] * Pow2(s)) % Limb) + (l[1] \div Pow2(16 - s)),
      ((l[3] * Pow2(s)) % Limb) + (l[2] \div Pow2(16 - s)),
      ((l[4] * Pow2(s)) % Limb) + (l[3] \div Pow2(16 - s))>>

\* rotate_left by k whole limbs, then by s < 16 bits
RotlU64(x, k, s) ==
    CHOOSE r \in
      {IF s = 0 THEN l ELSE RotlBits(l, s) :
       l \in {<<x[((8 - k) % 4) + 1], x[((9 - k) % 4) + 1],
                x[((10 - k) % 4) + 1], x[((11 - k) % 4) + 1]>>}} : TRUE

SipRound(v) ==
    CHOOSE r \in
      {<<c0, c1, RotlU64(c2, 2, 0), c3>> :
         c0 \in {AddU64(RotlU64(AddU64(v[1], v[2]), 2, 0),
                        XorU64(RotlU64(v[4], 1, 0), AddU64(v[3], v[4])))},
         c1 \in {XorU64(RotlU64(XorU64(RotlU64(v[2], 0, 13), AddU64(v[1], v[2])), 1, 1),
                        AddU64(AddU64(v[3], v[4]),
                               XorU64(RotlU64(v[2], 0, 13), AddU64(v[1], v[2]))))},
         c2 \in {AddU64(AddU64(v[3], v[4]),
                        XorU64(RotlU64(v[2], 0, 13), AddU64(v[1], v[2])))},
         c3 \in {XorU64(RotlU64(XorU64(RotlU64(v[4], 1, 0), AddU64(v[3], v[4])), 1, 5),
                        AddU64(RotlU64(AddU64(v[1], v[2]), 2, 0),
                               XorU64(RotlU64(v[4], 1, 0), AddU64(v[3], v[4]))))}} : TRUE

\* "somepseudorandomlygeneratedbytes" xor key (0, 0)
SipInit == << <<25973, 28787, 28005, 29551>>, <<28525, 28260, 29281, 25711>>,
              <<29281, 28261, 26469, 27769>>, <<25971, 31092, 25698, 29797>> >>

\* absorb one 8-byte word m: v3 ^= m; one round; v0 ^= m
SipXorV3(v, m) == <<v[1], v[2], v[3], XorU64(v[4], m)>>
SipXorV0(w, m) == <<XorU64(w[1], m), w[2], w[3], w[4]>>
SipWord(v, m) ==
    CHOOSE r \in {SipXorV0(w, m) : w \in {SipRound(SipXorV3(v, m))}} : TRUE

\* the four whole words of the input
SipAbsorb(v, words) ==
    CHOOSE r \in
      {SipWord(w3, words[4]) :
         w3 \in {SipWord(w2, words[3]) :
           w2 \in {SipWord(w1, words[2]) :
             w1 \in {SipWord(v, words[1])}}}} : TRUE

\* finish(): the last word holds the length in its top byte;
\* v2 ^= 0xff; three rounds; v0 ^ v1 ^ v2 ^ v3
SipXorV2(w) == <<w[1], w[2], XorU64(w[3], <<255, 0, 0, 0>>), w[4]>>
SipFold(z) == XorU64(XorU64(z[1], z[2]), XorU64(z[3], z[4]))
SipFinish(v, tail) ==
    CHOOSE r \in
      {SipFold(z) :
         z \in {SipRound(y) :
           y \in {SipRound(x) :
             x \in {SipRound(SipXorV2(w)) :
               w \in {SipWord(v, tail)}}}}} : TRUE

\* x shifted left by one byte with byte b entering at the bottom, and the
\* byte leaving at the top
ShlByte(x, b) == <<((x[1] * 256) % Limb) + b,
                   ((x[2] * 256) % Limb) + (x[1] \div 256),
                   ((x[3] * 256) % Limb) + (x[2] \div 256),
                   ((x[4] * 256) % Limb) + (x[3] \div 256)>>
TopByte(x) == x[4] \div 256

\* The bytes written by step.hash, value.hash, flag.hash, rank.hash:
\* 8 + 8 + 8 (+ 1 when the flag is Some) + 8, hashed by SipHash-1-3.
SipHashFields(step, value, flag, rank) ==
    LET s == ToU64(StepDiscriminant(step))
        v == ToU64(value)
        r == ToU64(rank)
    IN  IF flag = FlagNone
        THEN SipFinish(SipAbsorb(SipInit, <<s, v, ToU64(0), r>>),
                       <<0, 0, 0, 32 * 256>>)
        ELSE SipFinish(SipAbsorb(SipInit,
                         <<s, v, ToU64(1),
                           ShlByte(r, IF flag = FlagTrue THEN 1 ELSE 0)>>),
                       <<TopByte(r), 0, 0, 33 * 256>>)

(***************************************************************************)
(* Bounds of the model                                                     *)
(***************************************************************************)
\* f and N = 3f + 1 of the test run
F == 1
N == 3 * F + 1
\* a quorum short of one response
ThresholdShort == 2 * F
Threshold == 2 * F + 1
Procs == 0 .. N - 1

\* highest rank at which a proposer starts a sweep
MaxRank == 1
\* number of sweeps (R-step, A-step, B-step) a proposer starts
MaxSweeps == 3
\* proposed values are drawn from -NegValues .. MaxValue
NegValues == 1
MaxValue == 3
Values == (0 - NegValues) .. MaxValue
\* ranks that can appear in a message: the proposers' ranks and the ranks
\* 1, 2 a Byzantine sender writes (rng.gen_range(1..3))
ByzRanks == {1, 2}
Ranks == 0 .. (IF MaxRank > 2 THEN MaxRank ELSE 2)

\* the sentinel returned by propose when the stop flag is set
StopSentinel == -1

(***************************************************************************)
(* Broadcast::hash_value                                                   *)
(***************************************************************************)
\* the (step, value, flag, rank) tuples of the model
HashDomain == {<<s, v, fl, r>> : s \in Step, v \in Values \cup {0},
                                  fl \in Flags, r \in Ranks}

\* what a hasher fed (step, value, flag, rank) returns, for every tuple of
\* the model; the state variable hash_memo holds this table
HashMemoInit == [k \in HashDomain |-> SipHashFields(k[1], k[2], k[3], k[4])]

VARIABLES
    hash_memo,          \* DefaultHasher results, by (step, value, flag, rank)
    sched,              \* the thread schedule: receive preferences, delays left
    r_set,              \* run: r_set, per process
    a_sets,             \* run: a_sets, per process
    b_sets,             \* run: b_sets, per process
    broadcasts,         \* run: broadcasts (Broadcast -> count), per process
    pending_responses,  \* run: pending_responses, per process
    responses,          \* Process.responses, per process
    stop_flag,          \* Process.stop_flag, per process
    dispatcher,         \* state of the thread running Process::run
    chan,               \* messages sent and not yet received
    pc,                 \* position of the thread that called propose
    stack,              \* frames of the nested calls of propose
    locals,             \* r_value, flag, a_value of the innermost call
    result,             \* what the outermost call of propose returned
    byzantine,          \* Process.byzantine, per process
    initial,            \* the value each process was asked to propose
    history             \* observations of the run used by the properties

vars == <<hash_memo, heap, sched, r_set, a_sets, b_sets, broadcasts, pending_responses,
          responses, stop_flag, dispatcher, chan, pc, stack, locals, result,
          byzantine, initial, history>>

\* hash_value with the rank left out of the hasher
hash_value_rankless(b) == hash_memo[<<b.step, b.value, b.flag, 0>>]

\* Broadcast::hash_value: DefaultHasher over step, value, flag, rank
hash_value(b) == hash_memo[<<b.step, b.value, b.flag, b.rank>>]

(***************************************************************************)
(* Aggregation of 2f+1 responses                                           *)
(***************************************************************************)
\* a panic of the running thread (unwrap on None)
Panic == [kind |-> "Panic"]

\* the loop "for state in &response.state { if let Value::K(v) = state.value
\* { return Some(v) } } None": the first value of kind k, if any
RECURSIVE FirstOfKind(_, _)
FirstOfKind(states, k) ==
    IF states = <<>> THEN <<>>
    ELSE IF Head(states).value.kind = k THEN <<Head(states).value>>
    ELSE FirstOfKind(Tail(states), k)

\* filter_map over the responses: at most one value per response
RECURSIVE ValuesOfKind(_, _)
ValuesOfKind(rs, k) ==
    IF rs = <<>> THEN <<>>
    ELSE FirstOfKind(Head(rs).state, k) \o ValuesOfKind(Tail(rs), k)

\* the first RValue collected taken for the maximum
FirstRValue(rvs) == rvs[1]

RECURSIVE MaxRValue(_)
MaxRValue(rvs) == IF Len(rvs) = 1 THEN rvs[1]
                  ELSE RValueMax(rvs[1], MaxRValue(Tail(rvs)))

\* Process::process_r_responses
process_r_responses(rs) ==
    LET r_values == ValuesOfKind(rs, "RValue")
    IN  IF r_values = <<>> THEN Panic ELSE MaxRValue(r_values)

RECURSIVE MaxInt(_)
MaxInt(xs) == IF Len(xs) = 1 THEN xs[1]
              ELSE LET m == MaxInt(Tail(xs)) IN IF xs[1] > m THEN xs[1] ELSE m

Count(xs, v) == Cardinality({i \in 1 .. Len(xs) : xs[i] = v})

\* process_a_responses with the count returned in place of the value
process_a_responses_counted(rs, threshold) ==
    LET a_values == ValuesOfKind(rs, "AValue")
        vals == [i \in 1 .. Len(a_values) |-> a_values[i].value]
        max_value == IF vals = <<>> THEN 0 ELSE MaxInt(vals)
        full == {v \in {vals[i] : i \in 1 .. Len(vals)} : Count(vals, v) >= threshold}
    IN  IF full # {} THEN <<TRUE, Count(vals, CHOOSE v \in full : TRUE)>>
        ELSE <<FALSE, max_value>>

\* Process::process_a_responses; <<flag, value>>
process_a_responses(rs, threshold) ==
    LET a_values == ValuesOfKind(rs, "AValue")
        vals == [i \in 1 .. Len(a_values) |-> a_values[i].value]
        max_value == IF vals = <<>> THEN 0 ELSE MaxInt(vals)
        full == {v \in {vals[i] : i \in 1 .. Len(vals)} : Count(vals, v) >= threshold}
    IN  IF full # {} THEN <<TRUE, CHOOSE v \in full : TRUE>>
        ELSE <<FALSE, max_value>>

\* process_b_responses asking for more than threshold true pairs
process_b_responses_strict(rs, threshold) ==
    LET b_values == ValuesOfKind(rs, "BValue")
        true_values == SelectSeq(b_values, LAMBDA bv : bv.flag)
    IN  IF Len(true_values) > threshold THEN Commit(true_values[1].value)
        ELSE IF true_values # <<>> THEN Adopt(true_values[1].value)
        ELSE IF b_values = <<>> THEN Panic
        ELSE Adopt(MaxInt([i \in 1 .. Len(b_values) |-> b_values[i].value]))

\* Process::process_b_responses
process_b_responses(rs, threshold) ==
    LET b_values == ValuesOfKind(rs, "BValue")
        true_values == SelectSeq(b_values, LAMBDA bv : bv.flag)
    IN  IF Len(true_values) >= threshold THEN Commit(true_values[1].value)
        ELSE IF true_values # <<>> THEN Adopt(true_values[1].value)
        ELSE IF b_values = <<>> THEN Panic
        ELSE Adopt(MaxInt([i \in 1 .. Len(b_values) |-> b_values[i].value]))

(***************************************************************************)
(* Validation                                                              *)
(***************************************************************************)
\* Process::validate_response
validate_response(response) ==
    \A i \in 1 .. Len(response.state) :
        /\ Bc(response.state[i].broadcast).step = response.step
        /\ Bc(response.state[i].broadcast).rank = response.rank

\* broadcasts.get(broadcast).unwrap_or(&0)
BroadcastCount(bcasts, b) == IF b \in DOMAIN bcasts THEN bcasts[b] ELSE 0

\* reliably_check_broadcast with the test for a missing certificate turned
\* round: a broadcast that carries no certificate passes
reliably_check_broadcast_uncertified(b, bcasts, f) ==
    LET threshold == 2 * f + 1
        rs == [k \in 1 .. Len(b.previous_step_responses.rs) |->
                 Rs(b.previous_step_responses.rs[k])]
    IN  IF b.step = "R" /\ b.rank = 0 THEN "true"
        ELSE IF ~b.previous_step_responses.some THEN "true"
        ELSE IF BroadcastCount(bcasts, b) > f THEN "true"
        ELSE IF Len(rs) < threshold THEN "false"
        ELSE CASE b.step = "R" ->
                    IF b.flag # FlagNone THEN "false"
                    ELSE IF b.rank = 0 THEN "true"
                    ELSE LET d == process_b_responses(rs, threshold)
                         IN  IF d = Panic THEN "panic"
                             ELSE IF d = Adopt(b.value) THEN "true" ELSE "false"
               [] b.step = "A" ->
                    IF b.flag # FlagNone THEN "false"
                    ELSE LET m == process_r_responses(rs)
                         IN  IF m = Panic THEN "panic"
                             ELSE IF m.value = b.value THEN "true" ELSE "false"
               [] b.step = "B" ->
                    IF b.flag = FlagNone THEN "false"
                    ELSE IF process_a_responses(rs, threshold)
                              = <<b.flag = FlagTrue, b.value>>
                         THEN "true" ELSE "false"

\* Process::reliably_check_broadcast: "true", "false", or "panic" when an
\* unwrap in the replay of the certificate fails
reliably_check_broadcast(b, bcasts, f) ==
    LET threshold == 2 * f + 1
        rs == [k \in 1 .. Len(b.previous_step_responses.rs) |->
                 Rs(b.previous_step_responses.rs[k])]
    IN  IF b.step = "R" /\ b.rank = 0 THEN "true"
        ELSE IF ~b.previous_step_responses.some THEN "false"
        ELSE IF BroadcastCount(bcasts, b) > f THEN "true"
        ELSE IF Len(rs) < threshold THEN "false"
        ELSE CASE b.step = "R" ->
                    IF b.flag # FlagNone THEN "false"
                    ELSE IF b.rank = 0 THEN "true"
                    ELSE LET d == process_b_responses(rs, threshold)
                         IN  IF d = Panic THEN "panic"
                             ELSE IF d = Adopt(b.value) THEN "true" ELSE "false"
               [] b.step = "A" ->
                    IF b.flag # FlagNone THEN "false"
                    ELSE LET m == process_r_responses(rs)
                         IN  IF m = Panic THEN "panic"
                             ELSE IF m.value = b.value THEN "true" ELSE "false"
               [] b.step = "B" ->
                    IF b.flag = FlagNone THEN "false"
                    ELSE IF process_a_responses(rs, threshold)
                              = <<b.flag = FlagTrue, b.value>>
                         THEN "true" ELSE "false"

(***************************************************************************)
(* Answers of the dispatcher.  A lookup "broadcasts.iter().find(..)" walks *)
(* a HashMap, so it may return any entry that matches: every answer_*      *)
(* operator is the set of outcomes [reg, out, panic] the call can have.    *)
(***************************************************************************)
Elems(xs) == {xs[i] : i \in 1 .. Len(xs)}

MinInt(xs) == CHOOSE m \in Elems(xs) : \A x \in Elems(xs) : m <= x

\* iter().position(|&x| x == v)
Position(xs, v) == CHOOSE i \in 1 .. Len(xs) : xs[i] = v /\ \A k \in 1 .. i - 1 : xs[k] # v

\* the seen broadcasts with the given step, rank and value
Responsible(bcasts, step, rank, value) ==
    {rb \in DOMAIN bcasts : rb.value = value /\ rb.rank = rank /\ rb.step = step}

\* Process::answer_r_broadcast
answer_r_broadcast(id, b, rset, bcasts) ==
    LET broadcast_r_value == MkRValue(b.rank, b.value)
        max_r_value == RValueMax(broadcast_r_value, rset)
        found == Responsible(bcasts, b.step, max_r_value.rank, max_r_value.value)
    IN  IF found = {} THEN {[reg |-> max_r_value, out |-> <<>>, panic |-> TRUE]}
        ELSE {[reg |-> max_r_value,
               out |-> <<NewResponse(id, "R", b.rank, <<NewState(max_r_value, rb)>>)>>,
               panic |-> FALSE] : rb \in found}

\* the update of a_sets in Process::answer_a_broadcast
a_sets_update(asets, j, v) ==
    IF Len(asets) > j
    THEN IF v \notin Elems(asets) /\ Len(asets) < 2 THEN Append(asets, v)
         ELSE IF v > MaxInt(asets)
              THEN [asets EXCEPT ![Position(asets, MinInt(asets))] = v]
              ELSE asets
    ELSE Append(asets, v)

\* the states of an A-response: one per distinct value of a_sets that has a
\* seen broadcast of this step and rank
RECURSIVE a_states(_, _, _, _)
a_states(vals, sent_values, b, bcasts) ==
    IF vals = <<>> THEN {<<>>}
    ELSE LET v == Head(vals)
             rest == a_states(Tail(vals), sent_values \cup {v}, b, bcasts)
             found == Responsible(bcasts, b.step, b.rank, v)
         IN  IF v \in sent_values \/ found = {} THEN rest
             ELSE {<<NewState(MkAValue(v), rb)>> \o r : rb \in found, r \in rest}

\* Process::answer_a_broadcast
answer_a_broadcast(id, b, asets, bcasts) ==
    LET current_a_sets == a_sets_update(asets, b.rank, b.value)
    IN  {[reg |-> current_a_sets,
          out |-> <<NewResponse(id, "A", b.rank, st)>>,
          panic |-> FALSE] : st \in a_states(current_a_sets, {}, b, bcasts)}

\* the update of b_sets in Process::answer_b_broadcast
b_sets_update(bsets, j, value, flag) ==
    LET b_value == [value |-> value, flag |-> flag]
        len == Len(bsets)
        m == IF len = 0 THEN 0
             ELSE IF len = 1 THEN bsets[1].value
             ELSE IF bsets[1].value > bsets[2].value THEN bsets[1].value
             ELSE bsets[2].value
    IN  IF len > j
        THEN IF len < 2 THEN Append(bsets, b_value)
             ELSE IF (flag /\ b_value \notin Elems(bsets)) \/ (~flag /\ value > m)
                  THEN [bsets EXCEPT ![1] = b_value]
                  ELSE bsets
        ELSE Append(bsets, b_value)

\* the seen broadcasts a B-answer may cite for the pair bv: those of the
\* answered broadcast's step, rank and flag with the pair's value
ResponsibleB(bcasts, b, bv) ==
    {rb \in Responsible(bcasts, b.step, b.rank, bv.value) : rb.flag = b.flag}

\* Process::answer_b_broadcast
answer_b_broadcast(id, b, bsets, bcasts) ==
    IF b.flag = FlagNone THEN {[reg |-> bsets, out |-> <<>>, panic |-> TRUE]}
    ELSE
    LET b_values == b_sets_update(bsets, b.rank, b.value, b.flag = FlagTrue)
        true_pairs == SelectSeq(b_values, LAMBDA p : p.flag)
        false_pairs == SelectSeq(b_values, LAMBDA p : ~p.flag)
        highest_false == [value |-> MaxInt([i \in 1 .. Len(false_pairs) |->
                                               false_pairs[i].value]),
                          flag |-> FALSE]
        BV(p) == MkBValue(p.value, p.flag)
        failed == {[reg |-> b_values, out |-> <<>>, panic |-> TRUE]}
        Answer(st) == [reg |-> b_values,
                       out |-> <<NewResponse(id, "B", b.rank, st)>>,
                       panic |-> FALSE]
    IN  IF true_pairs # <<>> /\ false_pairs = <<>>
        THEN IF ResponsibleB(bcasts, b, true_pairs[1]) = {} THEN failed
             ELSE {Answer(<<NewState(BV(true_pairs[1]), rb)>>) :
                     rb \in ResponsibleB(bcasts, b, true_pairs[1])}
        ELSE IF true_pairs # <<>> /\ false_pairs # <<>>
        THEN IF ResponsibleB(bcasts, b, true_pairs[1]) = {}
                \/ ResponsibleB(bcasts, b, highest_false) = {} THEN failed
             ELSE {Answer(<<NewState(BV(true_pairs[1]), rt),
                            NewState(BV(highest_false), rf)>>) :
                     rt \in ResponsibleB(bcasts, b, true_pairs[1]),
                     rf \in ResponsibleB(bcasts, b, highest_false)}
        ELSE IF ResponsibleB(bcasts, b, highest_false) = {} THEN failed
             ELSE {Answer(<<NewState(BV(highest_false), rb)>>) :
                     rb \in ResponsibleB(bcasts, b, highest_false)}

(***************************************************************************)
(* The response gate                                                       *)
(***************************************************************************)
EmptyMap == <<>>

\* m.insert(k, v) on a map modelled as a function
MapPut(m, k, v) == [x \in DOMAIN m \cup {k} |-> IF x = k THEN v ELSE m[x]]

MapGet(m, k, default) == IF k \in DOMAIN m THEN m[k] ELSE default

\* responses.get(&key).map(|m| m.len()).unwrap_or(0)
IndexLen(idx, key) == Cardinality(DOMAIN MapGet(idx, key, EmptyMap))

ResponseKey(r) == <<r.step, r.rank>>

\* one response for each sender of senders, taken from cands
RECURSIVE PickPerSender(_, _)
PickPerSender(senders, cands) ==
    IF senders = {} THEN {EmptyMap}
    ELSE LET s == CHOOSE x \in senders : TRUE
         IN  {MapPut(g, s, r) : r \in {c \in cands : c.sender = s},
                                g \in PickPerSender(senders \ {s}, cands)}

\* the loop without the test entry.len() < threshold
PromoteEntryUncapped(entry, cands, threshold) ==
    LET new == {r.sender : r \in cands} \ DOMAIN entry
    IN  {[x \in DOMAIN entry \cup DOMAIN g |->
            IF x \in DOMAIN entry THEN entry[x] ELSE g[x]] :
          g \in PickPerSender(new, cands)}

\* the loop with a full entry giving up a held sender for a new one
PromoteEntryReplacing(entry, cands, threshold) ==
    LET new == {r.sender : r \in cands} \ DOMAIN entry
        room == threshold - Cardinality(DOMAIN entry)
    IN  IF new = {} THEN {entry}
        ELSE IF room > 0 THEN PromoteEntryUncapped(entry, cands, room)
        ELSE {[x \in (DOMAIN entry \ {old}) \cup {g.sender} |->
                  IF x = g.sender THEN g ELSE entry[x]] :
                old \in DOMAIN entry, g \in {r \in cands : r.sender \in new}}

\* The loop "for resp in received_responses" over the responses of one
\* (step, rank): a response enters unless its sender is present or the entry
\* is full.  The set is walked in any order, so any senders that fit may be
\* the ones that enter, each with any one of its responses.
PromoteEntry(entry, cands, threshold) ==
    LET new == {r.sender : r \in cands} \ DOMAIN entry
        room == threshold - Cardinality(DOMAIN entry)
        n == IF Cardinality(new) < room THEN Cardinality(new) ELSE room
    IN  IF n <= 0 THEN {entry}
        ELSE {[x \in DOMAIN entry \cup DOMAIN g |->
                  IF x \in DOMAIN entry THEN entry[x] ELSE g[x]] :
                g \in UNION {PickPerSender(chosen, cands) :
                               chosen \in {c \in SUBSET new : Cardinality(c) = n}}}

RECURSIVE PromoteAll(_, _, _, _)
PromoteAll(idx, group, keys, threshold) ==
    IF keys = {} THEN {idx}
    ELSE LET k == CHOOSE x \in keys : TRUE
         IN  UNION {PromoteAll(MapPut(idx, k, e), group, keys \ {k}, threshold) :
                      e \in PromoteEntry(MapGet(idx, k, EmptyMap),
                                         {r \in group : ResponseKey(r) = k},
                                         threshold)}

\* the BTreeSet of the hashes of the broadcasts a response cites
broadcast_hashes(response) ==
    {hash_value(Bc(response.state[i].broadcast)) : i \in 1 .. Len(response.state)}

\* reliably_check_response without the quorum test: the group of a response
\* is promoted as soon as the response arrives
reliably_check_response_on_arrival(response, idx, pending, threshold) ==
    IF ~validate_response(response) THEN {[responses |-> idx, pending |-> pending]}
    ELSE LET key == broadcast_hashes(response)
             received == MapGet(pending, key, {}) \cup {response}
             pending2 == MapPut(pending, key, received)
         IN  {[responses |-> idx2, pending |-> pending2] :
                idx2 \in PromoteAll(idx, received,
                                    {ResponseKey(r) : r \in received}, threshold)}

\* Process::reliably_check_response: the set of outcomes [responses, pending]
reliably_check_response(response, idx, pending, threshold) ==
    IF ~validate_response(response) THEN {[responses |-> idx, pending |-> pending]}
    ELSE LET key == broadcast_hashes(response)
             received == MapGet(pending, key, {}) \cup {response}
             pending2 == MapPut(pending, key, received)
         IN  IF Cardinality(received) >= threshold
             THEN {[responses |-> idx2, pending |-> pending2] :
                     idx2 \in PromoteAll(idx, received,
                                         {ResponseKey(r) : r \in received}, threshold)}
             ELSE {[responses |-> idx, pending |-> pending2]}

(***************************************************************************)
(* Sending                                                                 *)
(***************************************************************************)
RotateStep(s) == CASE s = "R" -> "A" [] s = "A" -> "B" [] s = "B" -> "R"

IsBroadcast(m) == "previous_step_responses" \in DOMAIN m

\* one arm of the match in Process::apply_byzantine_behavior, with every
\* value the inner draw (gen_range(1..3), gen_bool) can take
ByzantineArm(m, arm) ==
    CASE arm = "step" -> {[m EXCEPT !.step = RotateStep(m.step)]}
      [] arm = "rank" -> {[m EXCEPT !.rank = r] : r \in ByzRanks}
      [] arm = "flag" -> {[m EXCEPT !.flag = SomeFlag(fl)] : fl \in BOOLEAN}

\* Process::apply_byzantine_behavior: the messages the call can leave
apply_byzantine_behavior(m) ==
    IF IsBroadcast(m)
    THEN UNION {ByzantineArm(m, arm) : arm \in {"step", "rank", "flag"}}
    ELSE UNION {ByzantineArm(m, arm) : arm \in {"step", "rank"}}

\* The draws of rand::thread_rng are free (sched.free), or fixed for a run
\* by sched.rng: the arm taken for broadcasts, the arm taken for responses,
\* and the inner draw (rank 1 + draw, flag Some(draw = 1)), or taken from
\* the generator sched.lcg (sched.mode = "drawn").
Drawn(m) ==
    LET k == (sched.lcg \div 4096) % (IF IsBroadcast(m) THEN 3 ELSE 2)
        arm == IF sched.mode = "drawn"
               THEN (CASE k = 0 -> "step" [] k = 1 -> "rank" [] k = 2 -> "flag")
               ELSE IF IsBroadcast(m) THEN sched.rng.b ELSE sched.rng.r
        draw == IF sched.mode = "drawn" THEN (sched.lcg \div 512) % 2
                ELSE sched.rng.draw
    IN  CASE arm = "step" -> [m EXCEPT !.step = RotateStep(m.step)]
          [] arm = "rank" -> [m EXCEPT !.rank = 1 + draw]
          [] arm = "flag" -> [m EXCEPT !.flag = SomeFlag(draw = 1)]

\* the messages Process::send_message may put on the channels
Outgoing(m, byz) ==
    IF ~byz THEN {m}
    ELSE IF sched.free THEN apply_byzantine_behavior(m)
    ELSE {Drawn(m)}

Threads == {<<i, t>> : i \in Procs, t \in {"propose", "run"}}

\* sender.send(message.clone()) for every sender; a send to a process whose
\* receiver is gone fails and is only logged
Send(ch, thread, m, alive) ==
    [d \in Procs |-> IF d \in alive
                     THEN [ch[d] EXCEPT ![thread] = Append(@, m)]
                     ELSE ch[d]]

\* the lists of sent messages, with m entered
Interned(m) ==
    IF IsBroadcast(m)
    THEN IF \E k \in 1 .. Len(heap.b) : heap.b[k] = m THEN heap
         ELSE [heap EXCEPT !.b = Append(@, m)]
    ELSE IF \E k \in 1 .. Len(heap.r) : heap.r[k] = m THEN heap
         ELSE [heap EXCEPT !.r = Append(@, m)]

(***************************************************************************)
(* The dispatcher thread: Process::run                                     *)
(***************************************************************************)
Alive == {d \in Procs : dispatcher[d] = "running"}

\* the thread panicked or left its loop: its Receiver is dropped
DropReceiver(ch, d) == [ch EXCEPT ![d] = [t \in Threads |-> <<>>]]

\* broadcasts.entry(broadcast.clone()).or_insert(0)
or_insert(bcasts, b) == IF b \in DOMAIN bcasts THEN bcasts ELSE MapPut(bcasts, b, 0)

\* the answer to an accepted broadcast: answer_r/a/b_broadcast
Answers(i, b, bcasts) ==
    CASE b.step = "R" -> answer_r_broadcast(i, b, r_set[i], bcasts)
      [] b.step = "A" -> answer_a_broadcast(i, b, a_sets[i], bcasts)
      [] b.step = "B" -> answer_b_broadcast(i, b, b_sets[i], bcasts)

\* The order in which a HashMap or HashSet is walked is fixed by the hasher
\* seed of the process, which the code never sets.  sched.free leaves every
\* order open; otherwise sched.seed[i] = s stands for the seed under which the
\* entries of sender s come first, then those of s+1, and so on.
SenderRank(i, x) ==
    LET seed == IF sched.mode = "drawn" THEN (sched.lcg \div 1024) % N
                ELSE sched.seed[i]
    IN  (x + N - seed) % N

RECURSIVE CitedWeight(_, _)
CitedWeight(i, states) ==
    IF states = <<>> THEN 0
    ELSE SenderRank(i, Bc(Head(states).broadcast).sender)
           + N * CitedWeight(i, Tail(states))

AnswerWeight(i, o) == IF o.out = <<>> THEN 0 ELSE CitedWeight(i, o.out[1].state)

RECURSIVE SumOver(_, _, _)
SumOver(i, S, entry) ==
    IF S = {} THEN 0
    ELSE LET x == CHOOSE y \in S : TRUE
         IN  SenderRank(i, x) * N * N * N + CitedWeight(i, entry[x].state)
               + SumOver(i, S \ {x}, entry)

RECURSIVE IndexWeightOf(_, _, _)
IndexWeightOf(i, keys, idx) ==
    IF keys = {} THEN 0
    ELSE LET k == CHOOSE y \in keys : TRUE
         IN  SumOver(i, DOMAIN idx[k], idx[k]) + IndexWeightOf(i, keys \ {k}, idx)

IndexWeight(i, o) == IndexWeightOf(i, DOMAIN o.responses, o.responses)

RECURSIVE OrderWeight(_, _)
OrderWeight(i, ord) ==
    IF ord = <<>> THEN 0
    ELSE SenderRank(i, Head(ord)) + N * OrderWeight(i, Tail(ord))

\* the outcomes of S the walk order of process i can produce
Walk(i, S, W(_, _)) ==
    IF sched.free THEN S
    ELSE LET low == CHOOSE w \in {W(i, o) : o \in S} :
                        \A o \in S : w <= W(i, o)
         IN  {o \in S : W(i, o) = low}

\* run with the broadcast entered in the map before is_reliable is tested
DropBroadcastRecorded(i, b, rest, heard) ==
    /\ chan' = rest
    /\ history' = heard
    /\ broadcasts' = [broadcasts EXCEPT ![i] = or_insert(@, b)]
    /\ UNCHANGED <<r_set, a_sets, b_sets, dispatcher, heap>>

\* run, is_reliable false: the body of the if is skipped and the loop takes
\* the next message
DropBroadcast(i, b, rest, heard) ==
    /\ chan' = rest
    /\ history' = heard
    /\ UNCHANGED <<r_set, a_sets, b_sets, broadcasts, dispatcher, heap>>

\* run, Message::Broadcast arm, for a broadcast b taken from thread t
HandleBroadcast(i, t, b) ==
    LET chk == reliably_check_broadcast(b, broadcasts[i], F)
        rest == [chan EXCEPT ![i][t] = Tail(@)]
        heard == [history EXCEPT ![i].heard = Append(@, <<BroadcastRef(b), chk>>)]
        died(site) == [heard EXCEPT ![i].panic = Append(@, [at |-> site, on |-> b])]
    IN  /\ UNCHANGED <<hash_memo, pending_responses, responses, stop_flag, pc,
                       stack, locals, result, byzantine, initial>>
        /\ CASE chk = "panic" ->
                  /\ dispatcher' = [dispatcher EXCEPT ![i] = "panicked"]
                  /\ chan' = DropReceiver(rest, i)
                  /\ history' = died("reliably_check_broadcast")
                  /\ UNCHANGED <<r_set, a_sets, b_sets, broadcasts, heap>>
             [] chk = "false" -> DropBroadcast(i, b, rest, heard)
             [] chk = "true" ->
                  LET bcasts == or_insert(broadcasts[i], b)
                  IN  \E o \in Walk(i, Answers(i, b, bcasts), AnswerWeight) :
                        /\ broadcasts' = [broadcasts EXCEPT ![i] = bcasts]
                        /\ r_set' = IF b.step = "R" THEN [r_set EXCEPT ![i] = o.reg]
                                    ELSE r_set
                        /\ a_sets' = IF b.step = "A" THEN [a_sets EXCEPT ![i] = o.reg]
                                     ELSE a_sets
                        /\ b_sets' = IF b.step = "B" THEN [b_sets EXCEPT ![i] = o.reg]
                                     ELSE b_sets
                        /\ IF o.panic
                           THEN /\ dispatcher' = [dispatcher EXCEPT ![i] = "panicked"]
                                /\ chan' = DropReceiver(rest, i)
                                /\ history' = died(CASE b.step = "R" -> "answer_r_broadcast"
                                                     [] b.step = "A" -> "answer_a_broadcast"
                                                     [] b.step = "B" -> "answer_b_broadcast")
                                /\ UNCHANGED heap
                           ELSE /\ UNCHANGED dispatcher
                                /\ history' = heard
                                /\ \E m \in Outgoing(o.out[1], byzantine[i]) :
                                     /\ chan' = Send(rest, <<i, "run">>, m, Alive)
                                     /\ heap' = Interned(m)

\* the Message::Response arm with the R-register raised to the RValue of an
\* R-response that arrives
HandleResponseRegistering(i, t, r) ==
    /\ \E o \in Walk(i, reliably_check_response(r, responses[i],
                                     pending_responses[i], 2 * F + 1), IndexWeight) :
         /\ responses' = [responses EXCEPT ![i] = o.responses]
         /\ pending_responses' = [pending_responses EXCEPT ![i] = o.pending]
    /\ chan' = [chan EXCEPT ![i][t] = Tail(@)]
    /\ r_set' = [r_set EXCEPT ![i] =
                    IF FirstOfKind(r.state, "RValue") = <<>> THEN @
                    ELSE RValueMax(@, FirstOfKind(r.state, "RValue")[1])]
    /\ UNCHANGED <<hash_memo, heap, a_sets, b_sets, broadcasts, stop_flag,
                   dispatcher, pc, stack, locals, result, byzantine, initial,
                   history>>

\* run, Message::Response arm
HandleResponse(i, t, r) ==
    /\ \E o \in Walk(i, reliably_check_response(r, responses[i],
                                     pending_responses[i], 2 * F + 1), IndexWeight) :
         /\ responses' = [responses EXCEPT ![i] = o.responses]
         /\ pending_responses' = [pending_responses EXCEPT ![i] = o.pending]
    /\ chan' = [chan EXCEPT ![i][t] = Tail(@)]
    /\ UNCHANGED <<hash_memo, heap, r_set, a_sets, b_sets, broadcasts, stop_flag,
                   dispatcher, pc, stack, locals, result, byzantine, initial,
                   history>>

\* one turn of the loop of run: receiver.recv() returns the oldest message of
\* some sending thread
DispatchFrom(i, t) ==
    /\ dispatcher[i] = "running"
    /\ chan[i][t] # <<>>
    /\ IF IsBroadcast(Head(chan[i][t]))
       THEN HandleBroadcast(i, t, Head(chan[i][t]))
       ELSE HandleResponse(i, t, Head(chan[i][t]))

Dispatch(i) == \E t \in Threads : DispatchFrom(i, t)

\* run: "if stop_flag.load() { break }"
DispatcherStop(i) ==
    /\ dispatcher[i] = "running"
    /\ stop_flag[i]
    /\ dispatcher' = [dispatcher EXCEPT ![i] = "stopped"]
    /\ chan' = DropReceiver(chan, i)
    /\ UNCHANGED <<hash_memo, heap, r_set, a_sets, b_sets, broadcasts,
                   pending_responses, responses, stop_flag, pc, stack, locals,
                   result, byzantine, initial, history>>

\* Process::stop
Stop(i) ==
    /\ stop_flag' = [stop_flag EXCEPT ![i] = TRUE]
    /\ UNCHANGED <<hash_memo, heap, r_set, a_sets, b_sets, broadcasts,
                   pending_responses, responses, dispatcher, chan, pc, stack,
                   locals, result, byzantine, initial, history>>

(***************************************************************************)
(* The proposer thread: Process::propose and its steps                     *)
(***************************************************************************)
RECURSIVE SortedSeq(_)
SortedSeq(S) == IF S = {} THEN <<>>
                ELSE LET m == CHOOSE x \in S : \A y \in S : x <= y
                     IN  <<m>> \o SortedSeq(S \ {m})

RECURSIVE Perms(_)
Perms(S) == IF S = {} THEN {<<>>}
            ELSE UNION {{<<x>> \o p : p \in Perms(S \ {x})} : x \in S}

\* responses.get(&key).unwrap().values().cloned().collect(), the senders
\* taken in the order ord
IndexValues(idx, key, ord) == [k \in 1 .. Len(ord) |-> idx[key][ord[k]]]

\* values() walks a HashMap: the order is fixed for a map but unspecified.
\* Only the pick of the first true pair by process_b_responses depends on
\* it, so the other maps are walked by ascending sender.
IterOrders(entry) ==
    LET firsts == {FirstOfKind(entry[x].state, "BValue") : x \in DOMAIN entry}
        trues == {fv[1].value : fv \in {y \in firsts : y # <<>> /\ y[1].flag}}
    IN  IF Cardinality(trues) > 1 THEN Perms(DOMAIN entry)
        ELSE {SortedSeq(DOMAIN entry)}

Frame(i) == stack[i][Len(stack[i])]

\* the innermost call of propose returns v
Return(i, v) ==
    /\ stack' = [stack EXCEPT ![i] = SubSeq(@, 1, Len(@) - 1)]
    /\ IF Len(stack[i]) = 1
       THEN /\ result' = [result EXCEPT ![i] = <<v>>]
            /\ pc' = [pc EXCEPT ![i] = "done"]
       ELSE /\ UNCHANGED result
            /\ pc' = [pc EXCEPT ![i] = "top"]

\* a broadcast leaves the proposer through send_message
SendBroadcast(i, b) ==
    /\ \E m \in Outgoing(b, byzantine[i]) :
         /\ chan' = Send(chan, <<i, "propose">>, m, Alive)
         /\ heap' = Interned(m)
    /\ history' = [history EXCEPT ![i].sent = Append(@, <<b.step, b.rank>>)]

\* propose: the top of the loop, and r_step up to its broadcast
ProposeTop(i) ==
    LET rank == Frame(i).rank
        key == <<"B", rank - 1>>
    IN  /\ pc[i] = "top"
        /\ UNCHANGED <<hash_memo, r_set, a_sets, b_sets, broadcasts,
                       pending_responses, responses, stop_flag, dispatcher,
                       byzantine, initial>>
        /\ IF stop_flag[i]
           THEN /\ Return(i, StopSentinel)
                /\ UNCHANGED <<chan, heap, locals, history>>
           ELSE /\ Len(history[i].sent) < 3 * MaxSweeps
                /\ rank > 0 => IndexLen(responses[i], key) = Threshold
                /\ SendBroadcast(i, NewBroadcast(i, "R", Frame(i).value, FlagNone, rank,
                      IF rank > 0
                      THEN CertSome(IndexValues(responses[i], key, locals[i].order[rank - 1]))
                      ELSE CertNone))
                /\ pc' = [pc EXCEPT ![i] = "r_wait"]
                /\ UNCHANGED <<stack, locals, result>>

\* r_step: 2f+1 R-responses are indexed; a_step up to its broadcast
RStepDone(i) ==
    LET key == <<"R", Frame(i).rank>>
        rv == process_r_responses(
                  IndexValues(responses[i], key, SortedSeq(DOMAIN responses[i][key])))
        key2 == <<"R", rv.rank>>
    IN  /\ pc[i] = "r_wait"
        /\ IndexLen(responses[i], key) = Threshold
        /\ UNCHANGED <<hash_memo, r_set, a_sets, b_sets, broadcasts,
                       pending_responses, responses, stop_flag, dispatcher,
                       byzantine, initial, stack, result>>
        /\ IF rv = Panic \/ key2 \notin DOMAIN responses[i]
           THEN /\ pc' = [pc EXCEPT ![i] = "panicked"]
                /\ UNCHANGED <<chan, heap, locals, history>>
           ELSE /\ SendBroadcast(i, NewBroadcast(i, "A", rv.value, FlagNone, rv.rank,
                      CertSome(IndexValues(responses[i], key2,
                                           SortedSeq(DOMAIN responses[i][key2])))))
                /\ locals' = [locals EXCEPT ![i].r_value = rv]
                /\ pc' = [pc EXCEPT ![i] = "a_wait"]

\* a_step: 2f+1 A-responses are indexed; b_step up to its broadcast
AStepDone(i) ==
    LET rank == locals[i].r_value.rank
        key == <<"A", rank>>
        rs == IndexValues(responses[i], key, SortedSeq(DOMAIN responses[i][key]))
        fa == process_a_responses(rs, Threshold)
    IN  /\ pc[i] = "a_wait"
        /\ IndexLen(responses[i], key) = Threshold
        /\ SendBroadcast(i, NewBroadcast(i, "B", fa[2], SomeFlag(fa[1]), rank,
                                         CertSome(rs)))
        /\ locals' = [locals EXCEPT ![i].flag = fa[1], ![i].a_value = fa[2]]
        /\ pc' = [pc EXCEPT ![i] = "b_wait"]
        /\ UNCHANGED <<hash_memo, r_set, a_sets, b_sets, broadcasts,
                       pending_responses, responses, stop_flag, dispatcher,
                       byzantine, initial, stack, result>>

\* b_step: 2f+1 B-responses are indexed; the match on the decision
BStepDone(i) ==
    LET rank == locals[i].r_value.rank
        key == <<"B", rank>>
    IN  /\ pc[i] = "b_wait"
        /\ IndexLen(responses[i], key) = Threshold
        /\ UNCHANGED <<hash_memo, r_set, a_sets, b_sets, broadcasts,
                       pending_responses, responses, stop_flag, dispatcher,
                       byzantine, initial, chan, heap>>
        /\ \E ord \in IF rank \in DOMAIN locals[i].order
                      THEN {locals[i].order[rank]}
                      ELSE Walk(i, IterOrders(responses[i][key]), OrderWeight) :
             LET decision == process_b_responses(
                                 IndexValues(responses[i], key, ord), Threshold)
             IN  /\ locals' = [locals EXCEPT ![i].order = MapPut(@, rank, ord)]
                 /\ IF decision = Panic
                    THEN /\ pc' = [pc EXCEPT ![i] = "panicked"]
                         /\ UNCHANGED <<stack, result, history>>
                    ELSE /\ history' = [history EXCEPT ![i].decisions =
                                Append(@, [rank |-> Frame(i).rank,
                                           kind |-> decision.kind,
                                           value |-> decision.value])]
                         /\ IF decision.kind = "Commit"
                            THEN Return(i, decision.value)
                            ELSE IF Frame(i).rank < MaxRank
                            THEN /\ stack' = [stack EXCEPT ![i] = Append(@,
                                       [rank |-> Frame(i).rank + 1,
                                        value |-> decision.value])]
                                 /\ pc' = [pc EXCEPT ![i] = "top"]
                                 /\ UNCHANGED result
                            ELSE \* the model follows no call above MaxRank
                                 /\ pc' = [pc EXCEPT ![i] = "capped"]
                                 /\ UNCHANGED <<stack, result>>

(***************************************************************************)
(* Specifications                                                          *)
(***************************************************************************)
\* Process::new for every process, and propose(2f+1, v, 0) called on each
InitWith(byz, vals) ==
    /\ hash_memo = HashMemoInit
    /\ heap = [b |-> <<>>, r |-> <<>>]
    /\ r_set = [i \in Procs |-> MkRValue(0, 0)]
    /\ a_sets = [i \in Procs |-> <<>>]
    /\ b_sets = [i \in Procs |-> <<>>]
    /\ broadcasts = [i \in Procs |-> EmptyMap]
    /\ pending_responses = [i \in Procs |-> EmptyMap]
    /\ responses = [i \in Procs |-> EmptyMap]
    /\ stop_flag = [i \in Procs |-> FALSE]
    /\ dispatcher = [i \in Procs |-> "running"]
    /\ chan = [d \in Procs |-> [t \in Threads |-> <<>>]]
    /\ pc = [i \in Procs |-> "top"]
    /\ stack = [i \in Procs |-> <<[rank |-> 0, value |-> vals[i]]>>]
    /\ locals = [i \in Procs |-> [r_value |-> MkRValue(0, 0), flag |-> FALSE,
                                  a_value |-> 0, order |-> EmptyMap]]
    /\ result = [i \in Procs |-> <<>>]
    /\ byzantine = [i \in Procs |-> i \in byz]
    /\ initial = vals
    /\ history = [i \in Procs |-> [sent |-> <<>>, decisions |-> <<>>, panic |-> <<>>,
                                    heard |-> <<>>]]

Propose(i) == ProposeTop(i) \/ RStepDone(i) \/ AStepDone(i) \/ BStepDone(i)

\* the proposer of process i can take a step
ProposeReady(i) ==
    \/ /\ pc[i] = "top"
       /\ \/ stop_flag[i]
          \/ /\ Len(history[i].sent) < 3 * MaxSweeps
             /\ Frame(i).rank > 0 =>
                  IndexLen(responses[i], <<"B", Frame(i).rank - 1>>) = Threshold
    \/ pc[i] = "r_wait" /\ IndexLen(responses[i], <<"R", Frame(i).rank>>) = Threshold
    \/ pc[i] = "a_wait"
         /\ IndexLen(responses[i], <<"A", locals[i].r_value.rank>>) = Threshold
    \/ pc[i] = "b_wait"
         /\ IndexLen(responses[i], <<"B", locals[i].r_value.rank>>) = Threshold

\* the dispatcher of process i has a message to receive
DispatchReady(i) ==
    dispatcher[i] = "running" /\ \E t \in Threads : chan[i][t] # <<>>

\* Every interleaving of the eight threads is a run (NextRun).  The runs
\* explored are those of a family of schedulers, one per value of sched: a
\* proposer moves as soon as its wait is over, otherwise the dispatcher of
\* the process receives from the sender it prefers (sched.first[i], then the
\* senders that follow it).
StreamRank(i, t) ==
    ((t[1] + N - sched.first[i]) % N) * 2 + (IF t[2] = "propose" THEN 0 ELSE 1)

NextStream(i) ==
    CHOOSE t \in Threads :
        /\ chan[i][t] # <<>>
        /\ \A u \in Threads : chan[i][u] # <<>> => StreamRank(i, t) <= StreamRank(i, u)

Ready(i) == ProposeReady(i) \/ DispatchReady(i)

\* the processes take turns; a process with nothing to do is passed over
NextUp ==
    CHOOSE i \in Procs :
        /\ Ready(i)
        /\ \A j \in Procs :
             Ready(j) => (i + N - sched.turn) % N <= (j + N - sched.turn) % N

SchedPropose(i) ==
    /\ {j \in Procs : Ready(j)} # {}
    /\ i = NextUp
    /\ ProposeReady(i) = TRUE
    /\ Propose(i)
    /\ sched' = [sched EXCEPT !.turn = (i + 1) % N]

SchedDispatch(i) ==
    /\ {j \in Procs : Ready(j)} # {}
    /\ i = NextUp
    /\ ProposeReady(i) = FALSE
    /\ ~stop_flag[i]
    /\ DispatchFrom(i, NextStream(i))
    /\ sched' = [sched EXCEPT !.turn = (i + 1) % N]

NextSched == \E i \in Procs : SchedPropose(i) \/ SchedDispatch(i)

\* the draws a run may fix
Rngs == [b : {"step", "rank", "flag"}, r : {"step", "rank"}, draw : {0, 1}]
NoRng == [b |-> "step", r |-> "step", draw |-> 0]

\* the schedules of a specification: the receive preferences firsts, the
\* hasher seeds seeds (one seed for all processes), the draws rngs
InitSched(firsts, seeds, rngs) ==
    sched \in [first : firsts, seed : {[i \in Procs |-> s] : s \in seeds},
               rng : rngs, free : {FALSE}, turn : {0}, mode : {"turns"},
               lcg : {0}]

\* A second family of schedulers: every choice of a run (the thread that
\* moves, the sender a dispatcher receives from, the walk order of the maps,
\* the draws of the Byzantine process) is taken from a linear congruential
\* generator, so each start value of sched.lcg is one run.
LcgModulus == 65536
Lcg(x) == (x * 25173 + 13849) % LcgModulus

MoveCode(i, t) == i * 16 + 1 + t[1] * 2 + (IF t[2] = "propose" THEN 0 ELSE 1)

\* the moves a thread can make now, in a fixed order: process i's proposer
\* (i * 16), or its dispatcher receiving from thread t (MoveCode(i, t))
Moves ==
    SortedSeq({i * 16 : i \in {j \in Procs : ProposeReady(j)}}
              \cup UNION {{MoveCode(i, t) : t \in {u \in Threads : chan[i][u] # <<>>}} :
                            i \in {j \in Procs : dispatcher[j] = "running"}})

InitDrawn(starts) ==
    sched \in [first : {[i \in Procs |-> i]}, seed : {[i \in Procs |-> 0]},
               rng : {NoRng}, free : {FALSE}, turn : {0}, mode : {"drawn"},
               lcg : starts]

\* the move the generator picks
Move == Moves[1 + ((sched.lcg \div 64) % Len(Moves))]

DrawnPropose(i) ==
    /\ sched.mode = "drawn"
    /\ Moves # <<>>
    /\ Move = i * 16
    /\ Propose(i)
    /\ sched' = [sched EXCEPT !.lcg = Lcg(@)]

DrawnDispatch(i) ==
    /\ sched.mode = "drawn"
    /\ Moves # <<>>
    /\ Move \div 16 = i
    /\ Move % 16 # 0
    /\ DispatchFrom(i, CHOOSE t \in Threads : MoveCode(i, t) = Move)
    /\ sched' = [sched EXCEPT !.lcg = Lcg(@)]

NextDrawn == \E i \in Procs : DrawnPropose(i) \/ DrawnDispatch(i)

\* the dispatcher of a stopped process leaves its loop at its next turn
SchedHalt(i) ==
    /\ {j \in Procs : Ready(j)} # {}
    /\ i = NextUp
    /\ ProposeReady(i) = FALSE
    /\ DispatcherStop(i)
    /\ sched' = [sched EXCEPT !.turn = (i + 1) % N]

\* the caller of propose may call stop on these processes, at any time
Stoppable == {0}

CallStop(i) == i \in Stoppable /\ Stop(i) /\ UNCHANGED sched

NextStop == \E i \in Procs : SchedPropose(i) \/ SchedDispatch(i) \/ SchedHalt(i)
                               \/ CallStop(i)

NextRun == (\E i \in Procs : Dispatch(i) \/ Propose(i)) /\ UNCHANGED sched

\* the receive preferences explored: process 0 takes its own messages first
Firsts == {f \in [Procs -> Procs] : f[0] = 0}

\* S1: four correct processes propose the same value
InitUnanimous ==
    /\ InitSched(Firsts, {0}, {NoRng})
    /\ \E v \in {MaxValue} : InitWith({}, [i \in Procs |-> v])

SpecUnanimous == InitUnanimous /\ [][NextSched]_vars

\* S1 for the lowest and the highest value, every thread scheduled fairly
InitUnanimousFair ==
    /\ InitSched(Firsts, {0}, {NoRng})
    /\ \E v \in {0 - NegValues, MaxValue} : InitWith({}, [i \in Procs |-> v])

\* S2, test_consensus without its Byzantine process: process i proposes i
InitDistinct ==
    /\ InitSched(Firsts, {0, 1}, {NoRng})
    /\ InitWith({}, [i \in Procs |-> i])

SpecDistinct == InitDistinct /\ [][NextSched]_vars

\* runs of S2 with every thread scheduled fairly: the scheduler always moves
\* the next thread that can move
InitDistinctFair ==
    /\ InitSched({f \in Firsts : f[1] = 2 /\ f[2] = 1}, {1}, {NoRng})
    /\ InitWith({}, [i \in Procs |-> i])

\* the scheduler as far as sched shows it: some thread can move, and the turn
\* passes to another process.  No run repeats a state (every step consumes a
\* message or sends one), so weak fairness of SchedTurn is weak fairness of
\* NextSched: a run may only end where no thread can move.
SchedTurn ==
    /\ {j \in Procs : Ready(j)} # {}
    /\ \E t \in Procs : sched' = [sched EXCEPT !.turn = t]

SpecDistinctFair == InitDistinctFair /\ [][NextSched]_vars /\ WF_sched(SchedTurn)

SpecUnanimousFair == InitUnanimousFair /\ [][NextSched]_vars /\ WF_sched(SchedTurn)

\* S1 with stop called on process 0 at some moment
InitStop ==
    /\ InitSched({[i \in Procs |-> i]}, {0}, {NoRng})
    /\ InitWith({}, [i \in Procs |-> MaxValue])

SpecStop == InitStop /\ [][NextStop]_vars

\* test_consensus: process i proposes i, process 3 is Byzantine
InitByzantine ==
    /\ InitSched(Firsts, {0}, Rngs)
    /\ InitWith({3}, [i \in Procs |-> i])

SpecByzantine == InitByzantine /\ [][NextSched]_vars

\* one process Byzantine, the choices of each run drawn from the generator
LcgStarts == (570 .. 577) \cup {1166}
DrawnValues == {<<0, 1, 2, 3>>, <<1, 2, 2, 3>>, <<2, 2, 2, 2>>}
InitDrawnByzantine ==
    /\ InitDrawn(LcgStarts)
    /\ \E vals \in DrawnValues : InitWith({3}, [i \in Procs |-> vals[i + 1]])
SpecDrawnByzantine == InitDrawnByzantine /\ [][NextDrawn]_vars

\* S5: the correct processes propose the same value, process 3 is Byzantine
\* and proposes a higher or a lower one
InitDrawnShort ==
    /\ InitDrawn(32 .. 35)
    /\ \E vals \in {<<2, 2, 2, 3>>, <<2, 2, 2, 0>>} :
         InitWith({3}, [i \in Procs |-> vals[i + 1]])
SpecDrawnShort == InitDrawnShort /\ [][NextDrawn]_vars

\* A third family: one interleaving written out move by move.  In mode
\* "script" sched.lcg is the position in the script; the walk orders of the
\* maps stay open (sched.free).
Proposer(i) == i * 16
TakeBroadcast(i, s) == MoveCode(i, <<s, "propose">>)
TakeResponse(i, s) == MoveCode(i, <<s, "run">>)

\* The run: processes 0..3 propose 1, 2, 2, 3.  The R-steps return 1, 2, 2, 3;
\* the A-steps of processes 1, 2, 3 return (true, 2), (false, 2), (false, 3);
\* the dispatcher of process 0 then takes the three B-broadcasts in that order.
EvictionScript ==
    <<Proposer(0), Proposer(1), Proposer(2), Proposer(3),
      TakeBroadcast(0, 0), TakeBroadcast(1, 0), TakeBroadcast(2, 0), TakeBroadcast(3, 1),
      TakeResponse(0, 0), TakeResponse(0, 1), TakeResponse(0, 2), Proposer(0),
      TakeBroadcast(0, 1), TakeBroadcast(1, 1),
      TakeResponse(1, 0), TakeResponse(1, 0), TakeResponse(1, 3), TakeResponse(1, 1),
      TakeResponse(1, 1), Proposer(1),
      TakeResponse(2, 0), TakeResponse(2, 0), TakeResponse(2, 3), TakeResponse(2, 1),
      TakeResponse(2, 1), Proposer(2),
      TakeBroadcast(0, 3), TakeBroadcast(2, 3), TakeBroadcast(3, 3),
      TakeResponse(3, 3), TakeResponse(3, 3), TakeResponse(3, 0), TakeResponse(3, 0),
      TakeResponse(3, 0), TakeResponse(3, 2), TakeResponse(3, 2), Proposer(3),
      TakeBroadcast(0, 0), TakeBroadcast(0, 1), TakeBroadcast(0, 2), TakeBroadcast(0, 2),
      TakeBroadcast(0, 3),
      TakeBroadcast(1, 1), TakeBroadcast(1, 3), TakeBroadcast(1, 3),
      TakeBroadcast(2, 1), TakeBroadcast(2, 1), TakeBroadcast(2, 3),
      TakeBroadcast(3, 1), TakeBroadcast(3, 0), TakeBroadcast(3, 0),
      TakeResponse(1, 1), TakeResponse(1, 2), TakeResponse(1, 2), TakeResponse(1, 2),
      TakeResponse(1, 2), TakeResponse(1, 3), TakeResponse(1, 3), Proposer(1),
      TakeResponse(2, 0), TakeResponse(2, 0), TakeResponse(2, 0), TakeResponse(2, 0),
      TakeResponse(2, 0), TakeResponse(2, 3), TakeResponse(2, 3), TakeResponse(2, 3),
      TakeResponse(2, 3), TakeResponse(2, 1), TakeResponse(2, 2), TakeResponse(2, 2),
      TakeResponse(2, 2), TakeResponse(2, 2), Proposer(2),
      TakeResponse(3, 0), TakeResponse(3, 0), TakeResponse(3, 0), TakeResponse(3, 0),
      TakeResponse(3, 0), TakeResponse(3, 1), TakeResponse(3, 1), TakeResponse(3, 1),
      TakeResponse(3, 1), TakeResponse(3, 1), TakeResponse(3, 2), TakeResponse(3, 2),
      TakeResponse(3, 2), Proposer(3),
      TakeBroadcast(0, 1), TakeBroadcast(0, 2), TakeBroadcast(0, 3)>>

\* A second run: processes 0..3 propose 1, 1, 2, 3.  The R-steps return
\* 1, 1, 2, 3; the A-steps of processes 0 and 1 return (true, 1) and the
\* A-step of process 3 returns (true, 3); processes 0 and 3 finish their
\* B-steps.
SplitScript ==
    <<Proposer(0), Proposer(1), Proposer(2), Proposer(3),
      TakeBroadcast(0, 0), TakeBroadcast(1, 0), TakeBroadcast(2, 0),
      TakeResponse(0, 0), TakeResponse(0, 1), TakeResponse(0, 2), Proposer(0),
      TakeResponse(1, 0), TakeResponse(1, 1), TakeResponse(1, 2), Proposer(1),
      TakeBroadcast(0, 2), TakeBroadcast(1, 2), TakeBroadcast(3, 2),
      TakeResponse(2, 0), TakeResponse(2, 0), TakeResponse(2, 1), TakeResponse(2, 1),
      TakeResponse(2, 3), Proposer(2),
      TakeBroadcast(0, 3), TakeBroadcast(2, 3), TakeBroadcast(3, 3),
      TakeResponse(3, 3), TakeResponse(3, 3), TakeResponse(3, 0), TakeResponse(3, 0),
      TakeResponse(3, 0), TakeResponse(3, 2), TakeResponse(3, 2), Proposer(3),
      TakeBroadcast(0, 0), TakeBroadcast(0, 2), TakeBroadcast(0, 3),
      TakeBroadcast(1, 0), TakeBroadcast(1, 2), TakeBroadcast(1, 3), TakeBroadcast(1, 3),
      TakeBroadcast(2, 0),
      TakeBroadcast(3, 3), TakeBroadcast(3, 2),
      TakeResponse(0, 0), TakeResponse(0, 0), TakeResponse(0, 0), TakeResponse(0, 1),
      TakeResponse(0, 1), TakeResponse(0, 2), TakeResponse(0, 2), Proposer(0),
      TakeResponse(1, 0), TakeResponse(1, 0), TakeResponse(1, 0), TakeResponse(1, 1),
      TakeResponse(1, 1), TakeResponse(1, 2), TakeResponse(1, 2), Proposer(1),
      TakeResponse(3, 0), TakeResponse(3, 0), TakeResponse(3, 0), TakeResponse(3, 1),
      TakeResponse(3, 1), TakeResponse(3, 1), TakeResponse(3, 1), TakeResponse(3, 1),
      TakeResponse(3, 1), TakeResponse(3, 3), TakeResponse(3, 3), Proposer(3),
      TakeBroadcast(0, 0), TakeBroadcast(0, 1), TakeBroadcast(0, 1), TakeBroadcast(0, 1),
      TakeBroadcast(0, 3),
      TakeBroadcast(1, 0), TakeBroadcast(1, 1), TakeBroadcast(1, 1), TakeBroadcast(1, 1),
      TakeBroadcast(1, 3),
      TakeBroadcast(2, 0), TakeBroadcast(3, 3),
      TakeResponse(0, 0), TakeResponse(0, 0), TakeResponse(0, 0), TakeResponse(0, 1),
      TakeResponse(0, 1), TakeResponse(0, 1), TakeResponse(0, 1), TakeResponse(0, 2),
      Proposer(0),
      TakeResponse(3, 0), TakeResponse(3, 0), TakeResponse(3, 0), TakeResponse(3, 0),
      TakeResponse(3, 0), TakeResponse(3, 1), TakeResponse(3, 1), TakeResponse(3, 1),
      TakeResponse(3, 1), TakeResponse(3, 1), TakeResponse(3, 3), Proposer(3)>>

\* A third run: processes 0..3 propose 1, 1, 2, 3.  The R-steps return
\* 1, 1, 2, 3; dispatchers 1 and 2 take the A-broadcasts of values 1, 2, 3 in
\* that order and dispatcher 3 those of values 2, 3; the A-steps of processes
\* 0, 1, 2 return (true, 1) and the A-step of process 3 returns (false, 3).
\* Dispatcher 0 answers the three B-broadcasts (true, 1), dispatchers 1, 2, 3
\* the B-broadcast (false, 3); process 3 adopts 1 and runs rank 1.
DefaultScript ==
    <<Proposer(0), Proposer(1), Proposer(2), Proposer(3),
      TakeBroadcast(0, 0), TakeBroadcast(1, 0), TakeBroadcast(2, 0),
      TakeResponse(0, 0), TakeResponse(0, 1), TakeResponse(0, 2), Proposer(0),
      TakeResponse(1, 0), TakeResponse(1, 1), TakeResponse(1, 2), Proposer(1),
      TakeBroadcast(0, 2), TakeBroadcast(1, 2), TakeBroadcast(3, 2),
      TakeResponse(2, 0), TakeResponse(2, 0), TakeResponse(2, 1), TakeResponse(2, 1),
      TakeResponse(2, 3), Proposer(2),
      TakeBroadcast(0, 3), TakeBroadcast(2, 3), TakeBroadcast(3, 3),
      TakeResponse(3, 3), TakeResponse(3, 3), TakeResponse(3, 0), TakeResponse(3, 0),
      TakeResponse(3, 0), TakeResponse(3, 2), TakeResponse(3, 2), Proposer(3),
      TakeBroadcast(0, 0), TakeBroadcast(1, 0), TakeBroadcast(2, 0),
      TakeBroadcast(1, 2), TakeBroadcast(1, 3), TakeBroadcast(1, 3),
      TakeBroadcast(2, 2), TakeBroadcast(2, 2), TakeBroadcast(2, 3),
      TakeBroadcast(3, 2), TakeBroadcast(3, 3),
      TakeResponse(0, 0), TakeResponse(0, 0), TakeResponse(0, 0), TakeResponse(0, 1),
      TakeResponse(0, 1), TakeResponse(0, 2), TakeResponse(0, 2), Proposer(0),
      TakeResponse(1, 0), TakeResponse(1, 0), TakeResponse(1, 0), TakeResponse(1, 1),
      TakeResponse(1, 1), TakeResponse(1, 2), TakeResponse(1, 2), Proposer(1),
      TakeResponse(2, 0), TakeResponse(2, 0), TakeResponse(2, 1), TakeResponse(2, 2),
      TakeResponse(2, 2), TakeResponse(2, 2), Proposer(2),
      TakeResponse(3, 1), TakeResponse(3, 1), TakeResponse(3, 1), TakeResponse(3, 1),
      TakeResponse(3, 1), TakeResponse(3, 1), TakeResponse(3, 2), TakeResponse(3, 2),
      TakeResponse(3, 2), TakeResponse(3, 2), TakeResponse(3, 3), TakeResponse(3, 3),
      Proposer(3),
      TakeBroadcast(0, 0), TakeBroadcast(0, 1), TakeBroadcast(0, 1), TakeBroadcast(0, 1),
      TakeBroadcast(0, 2), TakeBroadcast(0, 2),
      TakeBroadcast(1, 3), TakeBroadcast(2, 3), TakeBroadcast(3, 3),
      TakeResponse(3, 0), TakeResponse(3, 0), TakeResponse(3, 0), TakeResponse(3, 0),
      TakeResponse(3, 0), TakeResponse(3, 0), TakeResponse(3, 0),
      TakeResponse(3, 1), TakeResponse(3, 2), TakeResponse(3, 3), Proposer(3),
      Proposer(3), TakeBroadcast(1, 3), TakeBroadcast(2, 3), TakeBroadcast(3, 3),
      TakeResponse(3, 1), TakeResponse(3, 2), TakeResponse(3, 3), Proposer(3),
      TakeBroadcast(1, 3), TakeBroadcast(2, 3), TakeBroadcast(3, 3),
      TakeResponse(3, 1), TakeResponse(3, 2), TakeResponse(3, 3), Proposer(3)>>

\* the script of a run (sched.turn names it) and the values proposed in it
Script ==
    CASE sched.turn = 0 -> EvictionScript
      [] sched.turn = 1 -> SplitScript
      [] OTHER -> DefaultScript
ScriptValues == IF sched.turn = 0 THEN <<1, 2, 2, 3>> ELSE <<1, 1, 2, 3>>

InitScript ==
    /\ sched \in [first : {[i \in Procs |-> i]}, seed : {[i \in Procs |-> 0]},
                  rng : {NoRng}, free : {TRUE}, turn : {0, 1, 2}, mode : {"script"},
                  lcg : {1}]
    /\ InitWith({}, [i \in Procs |-> ScriptValues[i + 1]])

ScriptMove == Script[sched.lcg]

ScriptPropose(i) ==
    /\ sched.mode = "script"
    /\ sched.lcg <= Len(Script)
    /\ ScriptMove = Proposer(i)
    /\ Propose(i)
    /\ sched' = [sched EXCEPT !.lcg = @ + 1]

ScriptDispatch(i) ==
    /\ sched.mode = "script"
    /\ sched.lcg <= Len(Script)
    /\ \E t \in Threads :
          /\ ScriptMove = MoveCode(i, t)
          /\ DispatchFrom(i, t)
    /\ sched' = [sched EXCEPT !.lcg = @ + 1]

NextScript == \E i \in Procs : ScriptPropose(i) \/ ScriptDispatch(i)
SpecScript == InitScript /\ [][NextScript]_vars

\* the runs with at most F Byzantine processes: the drawn runs with process 3
\* Byzantine, the drawn runs of four correct processes with 0 and negative
\* values, and the S2 runs
InitMixed ==
    /\ InitDrawn(LcgStarts) \/ InitSched(Firsts, {0, 1}, {NoRng})
    /\ \E byz \in {{}, {3}} :
         \E vals \in IF sched.mode = "turns"
                     THEN (IF byz = {} THEN {<<0, 1, 2, 3>>} ELSE {})
                     ELSE (IF byz = {} THEN {<<-1, 0, -1, 0>>, <<0, -1, 1, -1>>}
                           ELSE DrawnValues) :
             InitWith(byz, [i \in Procs |-> vals[i + 1]])

NextMixed == NextDrawn \/ (sched.mode = "turns" /\ NextSched)
SpecMixed == InitMixed /\ [][NextMixed]_vars

(***************************************************************************)
(* Properties                                                              *)
(***************************************************************************)
\* the correct processes, and the broadcasts a dispatcher has accepted
\* (entered in its map, updated a register for, and answered)
Correct == {i \in Procs : ~byzantine[i]}
Accepted(i) == DOMAIN broadcasts[i]
Certificate(b) == [k \in 1 .. Len(b.previous_step_responses.rs) |->
                     Rs(b.previous_step_responses.rs[k])]

\* the certificate of b, replayed through the aggregation of the previous
\* step, gives the payload of b
Replays(b) ==
    /\ b.previous_step_responses.some
    /\ Len(Certificate(b)) >= 2 * F + 1
    /\ CASE b.step = "R" ->
               process_b_responses(Certificate(b), 2 * F + 1) = Adopt(b.value)
          [] b.step = "A" ->
               /\ process_r_responses(Certificate(b)) # Panic
               /\ process_r_responses(Certificate(b)).value = b.value
          [] b.step = "B" ->
               /\ b.flag # FlagNone
               /\ process_a_responses(Certificate(b), 2 * F + 1)
                    = <<b.flag = FlagTrue, b.value>>

\* C11: every broadcast a correct dispatcher has accepted is an R-broadcast
\* of rank 0, or has a count above f in the dispatcher's map, or carries a
\* certificate of at least 2f+1 responses whose replay gives its payload.
CertificateSoundness ==
    \A i \in Correct : \A b \in Accepted(i) :
        \/ b.step = "R" /\ b.rank = 0
        \/ BroadcastCount(broadcasts[i], b) > F
        \/ Replays(b)

\* a correct dispatcher has accepted a B-broadcast of the Byzantine process
\* on the strength of its certificate
CertificateSoundnessWitness ==
    \E i \in Correct : \E b \in Accepted(i) :
        b.step = "B" /\ byzantine[b.sender] /\ Replays(b)

\* the step and the rank of the responses that certify a broadcast
PreviousStep(s) == CASE s = "R" -> "B" [] s = "A" -> "R" [] s = "B" -> "A"
PreviousRank(b) == IF b.step = "R" THEN b.rank - 1 ELSE b.rank

\* C12: every broadcast a correct dispatcher has accepted through the full
\* certificate check (not an R-broadcast of rank 0, not amplified) carries
\* only responses of the previous step and of the matching rank.
CertificateKindCheck ==
    \A i \in Correct : \A b \in Accepted(i) :
        \/ b.step = "R" /\ b.rank = 0
        \/ BroadcastCount(broadcasts[i], b) > F
        \/ \A k \in 1 .. Len(Certificate(b)) :
              /\ Certificate(b)[k].step = PreviousStep(b.step)
              /\ Certificate(b)[k].rank = PreviousRank(b)

\* C13: no broadcast a correct dispatcher has accepted is an R-broadcast or
\* an A-broadcast with a flag, or a B-broadcast without one.
FlagPresenceCheck ==
    \A i \in Correct : \A b \in Accepted(i) :
        IF b.step = "B" THEN b.flag # FlagNone ELSE b.flag = FlagNone

\* the content-hashes cited by the responses of a certificate (a set of
\* responses), and the certificates of the broadcasts dispatcher i received
\* before its k-th
CitedIn(cert) == UNION {broadcast_hashes(Rs(r)) : r \in cert}
Routed(i, k) ==
    {Elems(Bc(history[i].heard[j][1]).previous_step_responses.rs) : j \in 1 .. k - 1}
Inclusions(i, k) ==
    LET b == Bc(history[i].heard[k][1])
    IN  {c \in Routed(i, k) : /\ c # Elems(b.previous_step_responses.rs)
                              /\ hash_value(b) \in CitedIn(c)}

\* C14: a broadcast, not an R-broadcast of rank 0, that reaches a correct
\* dispatcher after at least f+1 other certificates citing its content-hash
\* is accepted.
Amplification ==
    \A i \in Correct : \A k \in 1 .. Len(history[i].heard) :
        LET b == Bc(history[i].heard[k][1])
        IN  (/\ ~(b.step = "R" /\ b.rank = 0)
             /\ Cardinality(Inclusions(i, k)) >= F + 1)
              => history[i].heard[k][2] = "true"

\* the proposer of process i is inside one of the waits for 2f+1 responses
\* and the responses are not there
Blocked(i) == pc[i] \in {"r_wait", "a_wait", "b_wait"} /\ ~ProposeReady(i)

\* C15: a stopped process is never left with its proposer blocked in a wait
\* that can no longer end, the dispatcher that fills the response index
\* having exited: the proposer of a stopped process gets to return -1.
CancellationReturns ==
    \A i \in Procs :
        ~(stop_flag[i] /\ dispatcher[i] = "stopped" /\ Blocked(i))

\* C16: no dispatcher of a correct process terminates abnormally on a
\* broadcast sent by a Byzantine process.
ByzantineRobustness ==
    \A i \in Correct : \A k \in 1 .. Len(history[i].panic) :
        ~byzantine[history[i].panic[k].on.sender]

\* the responses in the index of process i
Indexed(i) == UNION {{responses[i][k][s] : s \in DOMAIN responses[i][k]} :
                       k \in DOMAIN responses[i]}

\* C17: every response in the index of a process is well-formed and is one
\* of at least 2f+1 distinct pending responses of that process that cite the
\* same set of content-hashes.
ResponseGate ==
    \A i \in Procs : \A r \in Indexed(i) :
        /\ validate_response(r)
        /\ r \in MapGet(pending_responses[i], broadcast_hashes(r), {})
        /\ Cardinality(MapGet(pending_responses[i], broadcast_hashes(r), {}))
             >= 2 * F + 1

\* a correct process has indexed 2f+1 B-responses, none of them from the
\* Byzantine process, which has broadcast
ResponseGateWitness ==
    \E i \in Correct :
        /\ IndexLen(responses[i], <<"B", 0>>) = Threshold
        /\ \E j \in Procs : byzantine[j] /\ Len(history[j].sent) > 0
        /\ \A r \in Indexed(i) : ~byzantine[r.sender]

\* C18: whatever a correct proposer has sent or decided, the quorum before it
\* is in its response index: 2f+1 entries at (R, r) for an A-broadcast of
\* rank r, at (A, r) for a B-broadcast, at (B, r - 1) for an R-broadcast of
\* rank r > 0, and at (B, r) for a decision taken at rank r.
QuorumGatedProgress ==
    \A i \in Correct :
        /\ \A k \in 1 .. Len(history[i].sent) :
              LET step == history[i].sent[k][1]
                  r == history[i].sent[k][2]
              IN  CASE step = "A" -> IndexLen(responses[i], <<"R", r>>) = 2 * F + 1
                    [] step = "B" -> IndexLen(responses[i], <<"A", r>>) = 2 * F + 1
                    [] step = "R" ->
                         r > 0 => IndexLen(responses[i], <<"B", r - 1>>) = 2 * F + 1
        /\ \A k \in 1 .. Len(history[i].decisions) :
              IndexLen(responses[i], <<"B", history[i].decisions[k].rank>>) = 2 * F + 1

\* a correct proposer has adopted at rank 0, has sent its R-broadcast of
\* rank 1 and, the R-responses being there, its A-broadcast of rank 1
QuorumGatedProgressWitness ==
    \E i \in Correct :
        /\ \E k \in 1 .. Len(history[i].decisions) :
              history[i].decisions[k].kind = "Adopt"
        /\ \E k \in 1 .. Len(history[i].sent) : history[i].sent[k] = <<"R", 1>>
        /\ \E k \in 1 .. Len(history[i].sent) : history[i].sent[k] = <<"A", 1>>

\* C19: the broadcasts a correct proposer has sent are pairwise different in
\* (step, rank), and their ranks never decrease.
OneBroadcastPerStepAndRank ==
    \A i \in Correct : \A k, l \in 1 .. Len(history[i].sent) :
        k < l => /\ history[i].sent[k] # history[i].sent[l]
                 /\ history[i].sent[k][2] <= history[i].sent[l][2]

\* the RValues embedded in the responses indexed by process i at (R, r): for
\* each response the first value of its state that is an RValue
EmbeddedRValues(i, r) ==
    LET entry == MapGet(responses[i], <<"R", r>>, EmptyMap)
        IsR(x, k) == entry[x].state[k].value.kind = "RValue"
        First(x) == entry[x].state[CHOOSE k \in 1 .. Len(entry[x].state) :
                                     /\ IsR(x, k)
                                     /\ \A j \in 1 .. k - 1 : ~IsR(x, j)].value
    IN  {First(s) : s \in {x \in DOMAIN entry :
                             \E k \in 1 .. Len(entry[x].state) : IsR(x, k)}}

\* C20: the RValue a correct proposer holds after its R step at rank r is one
\* of the RValues embedded in the 2f+1 responses indexed at (R, r), and none
\* of them is above it in the order by rank, then by value.
RStepOutput ==
    \A i \in Correct :
        pc[i] \in {"a_wait", "b_wait"} =>
            /\ IndexLen(responses[i], <<"R", Frame(i).rank>>) = 2 * F + 1
            /\ locals[i].r_value \in EmbeddedRValues(i, Frame(i).rank)
            /\ \A x \in EmbeddedRValues(i, Frame(i).rank) :
                  \/ x.rank < locals[i].r_value.rank
                  \/ /\ x.rank = locals[i].r_value.rank
                     /\ x.value <= locals[i].r_value.value

\* a correct proposer is past an R step whose responses embed different
\* RValues
RStepOutputWitness ==
    \E i \in Correct :
        /\ pc[i] = "a_wait"
        /\ Cardinality(EmbeddedRValues(i, Frame(i).rank)) > 1

\* the values returned by propose at the correct processes
Returned == {result[i][1] : i \in {j \in Correct : result[j] # <<>>}}

Validity == Returned \subseteq {initial[j] : j \in Procs}

\* a correct process has returned in a run where a process proposed a
\* negative value
ValidityWitness == Returned # {} /\ \E j \in Procs : initial[j] < 0

Decisions(i) == history[i].decisions

\* C4: a Commit is the last thing the proposer of a correct process does: it
\* is the last decision taken and no broadcast follows it (each decision
\* closes one sweep of three broadcasts).
LoopEquivalence ==
    \A i \in Correct : \A k \in 1 .. Len(Decisions(i)) :
        Decisions(i)[k].kind = "Commit" =>
            /\ k = Len(Decisions(i))
            /\ Len(history[i].sent) = 3 * k

\* what S1 allows of a process: its A-step returned (true, v), its B-step
\* Commit(v), it returned v or nothing yet, and it sent the three broadcasts
\* of rank 0 at most
UnanimousOutcome ==
    \A i \in Procs :
        /\ pc[i] \in {"b_wait", "done"} =>
              locals[i].flag /\ locals[i].a_value = initial[i]
        /\ \A k \in 1 .. Len(Decisions(i)) :
              Decisions(i)[k] = [rank |-> 0, kind |-> "Commit", value |-> initial[i]]
        /\ result[i] \in {<<>>, <<initial[i]>>}
        /\ Len(history[i].sent) <= 3
        /\ \A k \in 1 .. Len(history[i].sent) : history[i].sent[k][2] = 0

\* C5: when the four processes are correct and propose the same value v, the
\* A-step of every process returns (true, v), its B-step returns Commit(v),
\* no process broadcasts at rank 1, and propose returns v at every process.
Unanimity == []UnanimousOutcome /\ \A i \in Procs : <>(result[i] = <<initial[i]>>)

\* C6: when the correct processes propose the same value v, every decision
\* of a correct process is Commit(v) at rank 0, whatever the Byzantine
\* process proposes and sends.
RankZeroShortCircuit ==
    \A i \in Correct : \A k \in 1 .. Len(Decisions(i)) :
        Decisions(i)[k] = [rank |-> 0, kind |-> "Commit", value |-> initial[i]]

\* the R-broadcasts the dispatcher of process i has accepted
AcceptedR(i) ==
    {Bc(history[i].heard[k][1]) : k \in {n \in 1 .. Len(history[i].heard) :
        /\ history[i].heard[n][2] = "true"
        /\ Bc(history[i].heard[n][1]).step = "R"}}

\* C7: no step lowers the R-register of a correct process in the order of
\* RValues (rank first, then value).
MonotoneRRegister == [][\A i \in Correct : RValueLeq(r_set[i], r_set'[i])]_vars

\* a correct dispatcher has accepted an R-broadcast below its register, and
\* its register has reached rank 1
MonotoneRRegisterWitness ==
    \E i \in Correct :
        /\ r_set[i].rank = 1
        /\ \E b \in AcceptedR(i) : RValueLess(MkRValue(b.rank, b.value), r_set[i])

\* C8: the A-register of a correct process holds at most two values, and
\* they are distinct.
ARegisterBounded ==
    \A i \in Correct :
        /\ Len(a_sets[i]) <= 2
        /\ Cardinality(Elems(a_sets[i])) = Len(a_sets[i])

\* C9: at every process the response index of every (step, rank) holds at
\* most 2f+1 entries, each under its own sender, and no step removes or
\* replaces an entry.
ResponseIndexBounded ==
    [][\A i \in Procs :
         /\ \A key \in DOMAIN responses'[i] :
               /\ IndexLen(responses'[i], key) <= Threshold
               /\ \A s \in DOMAIN responses'[i][key] :
                     responses'[i][key][s].sender = s
         /\ \A key \in DOMAIN responses[i] : \A s \in DOMAIN responses[i][key] :
               /\ key \in DOMAIN responses'[i]
               /\ s \in DOMAIN responses'[i][key]
               /\ responses'[i][key][s] = responses[i][key][s]]_vars

\* a full entry of the index, and a quorum group of pending responses that
\* holds another response of an indexed sender for the same (step, rank) and
\* a response of a sender that is not indexed
ResponseIndexBoundedWitness ==
    \E i \in Procs : \E key \in DOMAIN responses[i] :
        /\ IndexLen(responses[i], key) = Threshold
        /\ \E h \in DOMAIN pending_responses[i] :
              /\ Cardinality(pending_responses[i][h]) >= Threshold
              /\ \E r \in pending_responses[i][h] :
                    /\ ResponseKey(r) = key
                    /\ r.sender \in DOMAIN responses[i][key]
                    /\ r # responses[i][key][r.sender]
              /\ \E r \in pending_responses[i][h] :
                    /\ ResponseKey(r) = key
                    /\ r.sender \notin DOMAIN responses[i][key]

\* the four fields Broadcast::hash_value feeds to the hasher
HashedFields(b) == <<b.step, b.value, b.flag, b.rank>>

\* the broadcasts that have been sent
Sent == {heap.b[k] : k \in 1 .. Len(heap.b)}

\* C10: two broadcasts have the same content hash exactly when they agree on
\* (step, value, flag, rank), whatever their senders and certificates; over
\* the tuples of the model the hash takes as many values as there are tuples.
HashInvariance ==
    /\ \A b1, b2 \in Sent :
          (HashedFields(b1) = HashedFields(b2)) <=> (hash_value(b1) = hash_value(b2))
    /\ Cardinality({hash_memo[k] : k \in HashDomain}) = Cardinality(HashDomain)

\* broadcasts of different senders and certificates with the same four
\* fields have been sent, and broadcasts that differ in the rank alone
HashInvarianceWitness ==
    /\ \E b1, b2 \in Sent :
          /\ HashedFields(b1) = HashedFields(b2)
          /\ b1.sender # b2.sender
          /\ b1.previous_step_responses # b2.previous_step_responses
    /\ \E b1, b2 \in Sent :
          /\ b1.rank # b2.rank
          /\ <<b1.step, b1.value, b1.flag>> = <<b2.step, b2.value, b2.flag>>

\* the responses a_step of process i collected: the index entry at (A, rank)
ACollected(i) == MapGet(responses[i], <<"A", locals[i].r_value.rank>>, EmptyMap)

\* the AValues a response carries, over every one of its states
AValuesOf(r) == {r.state[k].value.value :
                   k \in {n \in 1 .. Len(r.state) : r.state[n].value.kind = "AValue"}}

\* C21: the A-step of a correct process returns (true, v) when some v is
\* carried by at least 2f+1 of the collected A-responses, and otherwise
\* (false, m) with m the maximum of all the AValues the responses carry.
AStepAggregation ==
    \A i \in Correct :
        pc[i] = "b_wait" =>
            LET entry == ACollected(i)
                carried == UNION {AValuesOf(entry[x]) : x \in DOMAIN entry}
                full == {v \in carried :
                           Cardinality({x \in DOMAIN entry : v \in AValuesOf(entry[x])})
                             >= 2 * F + 1}
            IN  IF full # {}
                THEN locals[i].flag /\ locals[i].a_value \in full
                ELSE /\ ~locals[i].flag
                     /\ locals[i].a_value \in carried
                     /\ \A v \in carried : v <= locals[i].a_value

\* C22: the A-step of a correct process returns (true, v) only if at least
\* 2f+1 of the collected A-responses carry v and no other value.
AStepQuorumOfOnly ==
    \A i \in Correct :
        (pc[i] = "b_wait" /\ locals[i].flag) =>
            Cardinality({x \in DOMAIN ACollected(i) :
                           AValuesOf(ACollected(i)[x]) = {locals[i].a_value}})
              >= 2 * F + 1

\* the responses the last b_step of process i collected: the index entry at
\* (B, rank), and the BValues they carry, over every state
BCollected(i) == MapGet(responses[i], <<"B", locals[i].r_value.rank>>, EmptyMap)
BPairsOf(i) ==
    LET entry == BCollected(i)
    IN  UNION {{<<x, k>> : k \in {n \in 1 .. Len(entry[x].state) :
                                     entry[x].state[n].value.kind = "BValue"}} :
                 x \in DOMAIN entry}
BPair(i, p) == BCollected(i)[p[1]].state[p[2]].value

\* a proposer between the decision of a sweep and the R-step of the next
AfterBStep(i) ==
    /\ Decisions(i) # <<>>
    /\ pc[i] \in {"top", "r_wait", "done", "capped"}

\* C23: with T the true-pairs carried by the 2f+1 B-responses a correct
\* process collected, its B-step decides Commit(v') when |T| >= 2f+1 and
\* Adopt(v') when 1 <= |T| < 2f+1, v' the value of a true-pair, and Adopt of
\* the highest value of the false-pairs when T is empty.
BStepAggregation ==
    \A i \in Correct :
        AfterBStep(i) =>
            LET T == {p \in BPairsOf(i) : BPair(i, p).flag}
                d == Decisions(i)[Len(Decisions(i))]
            IN  /\ Cardinality(DOMAIN BCollected(i)) = 2 * F + 1
                /\ IF T # {}
                   THEN /\ d.kind = (IF Cardinality(T) >= 2 * F + 1
                                     THEN "Commit" ELSE "Adopt")
                        /\ \E p \in T : d.value = BPair(i, p).value
                   ELSE /\ d.kind = "Adopt"
                        /\ \E p \in BPairsOf(i) : d.value = BPair(i, p).value
                        /\ \A p \in BPairsOf(i) : BPair(i, p).value <= d.value

\* a correct process has adopted the value of a true-pair, from responses of
\* one and of two states that carry true-pairs and false-pairs, and a correct
\* process has committed
BStepAggregationWitness ==
    /\ \E i \in Correct :
          /\ AfterBStep(i)
          /\ Decisions(i)[Len(Decisions(i))].kind = "Adopt"
          /\ \E p, q \in BPairsOf(i) : BPair(i, p).flag /\ ~BPair(i, q).flag
          /\ \E x \in DOMAIN BCollected(i) : Len(BCollected(i)[x].state) = 2
    /\ \E i \in Correct :
          AfterBStep(i) /\ Decisions(i)[Len(Decisions(i))].kind = "Commit"

\* the true-pairs carried by the responses process i has indexed at (B, r)
TruePairsAt(i, r) ==
    LET entry == MapGet(responses[i], <<"B", r>>, EmptyMap)
    IN  UNION {{entry[x].state[k].value :
                  k \in {n \in 1 .. Len(entry[x].state) :
                            /\ entry[x].state[n].value.kind = "BValue"
                            /\ entry[x].state[n].value.flag}} :
                 x \in DOMAIN entry}

Answering(i, step) ==
    /\ Len(history'[i].heard) = Len(history[i].heard) + 1
    /\ LET h == history'[i].heard[Len(history'[i].heard)]
       IN  h[2] = "true" /\ Bc(h[1]).step = step

\* the broadcast the dispatcher of process i is answering
Answered(i) == Bc(history'[i].heard[Len(history'[i].heard)][1])

\* the answering step of process i puts exactly one response on the channel
\* to every running dispatcher, and the response satisfies P
EmitsOne(i, P(_)) ==
    /\ dispatcher'[i] = "running"
    /\ \A d \in Alive :
          LET q == chan'[d][<<i, "run">>]
          IN  /\ Len(q) = Len(chan[d][<<i, "run">>]) + 1
              /\ ~IsBroadcast(q[Len(q)])
              /\ P(q[Len(q)])

\* C25: a correct dispatcher that delivers an accepted R-broadcast of rank j
\* and value v sets r_set to the maximum of r_set and (j, v) and emits exactly
\* one R-response of rank j, whose single state holds the new r_set and a
\* seen R-broadcast with the rank and the value of r_set.
RAnswer ==
    [][\A i \in Correct :
          Answering(i, "R") =>
              LET b == Answered(i)
                  jv == MkRValue(b.rank, b.value)
                  reg == IF RValueLess(r_set[i], jv) THEN jv ELSE r_set[i]
                  Shape(m) ==
                      /\ m.sender = i /\ m.step = "R" /\ m.rank = b.rank
                      /\ Len(m.state) = 1
                      /\ m.state[1].value = reg
                      /\ LET c == heap'.b[m.state[1].broadcast]
                         IN  /\ c \in DOMAIN broadcasts'[i]
                             /\ c.step = "R"
                             /\ c.rank = reg.rank
                             /\ c.value = reg.value
              IN  r_set'[i] = reg /\ EmitsOne(i, Shape)]_vars

\* the values of the accepted broadcasts of a step and a rank, in the order
\* in which the dispatcher of process i took them
RECURSIVE DeliveredAt(_, _, _)
DeliveredAt(heard, step, j) ==
    IF heard = <<>> THEN <<>>
    ELSE LET h == heard[Len(heard)]
             front == DeliveredAt(SubSeq(heard, 1, Len(heard) - 1), step, j)
         IN  IF h[2] = "true" /\ Bc(h[1]).step = step /\ Bc(h[1]).rank = j
             THEN Append(front, Bc(h[1]))
             ELSE front

\* the register rule for one rank: [v] when the register does not exist, v
\* appended when absent and fewer than 2 values are held, the minimum
\* replaced when v exceeds the maximum, and no change otherwise
ARegisterRule(reg, v) ==
    IF reg = <<>> THEN <<v>>
    ELSE IF v \notin Elems(reg) /\ Len(reg) < 2 THEN Append(reg, v)
    ELSE IF v > MaxInt(reg) THEN [reg EXCEPT ![Position(reg, MinInt(reg))] = v]
    ELSE reg

RECURSIVE ARegisterOf(_)
ARegisterOf(bs) ==
    IF bs = <<>> THEN <<>>
    ELSE ARegisterRule(ARegisterOf(SubSeq(bs, 1, Len(bs) - 1)), bs[Len(bs)].value)

\* the rank of the last accepted broadcast of the step process i has taken;
\* -1 when there is none
RECURSIVE LastRankOf(_, _)
LastRankOf(heard, step) ==
    IF heard = <<>> THEN 0 - 1
    ELSE LET h == heard[Len(heard)]
         IN  IF h[2] = "true" /\ Bc(h[1]).step = step THEN Bc(h[1]).rank
             ELSE LastRankOf(SubSeq(heard, 1, Len(heard) - 1), step)

\* C26: after a correct dispatcher has delivered an accepted A-broadcast of
\* rank j, the A-register it answers from is the register the rule builds
\* from the accepted A-broadcasts of rank j: [v] for the first, v appended
\* when absent and fewer than 2 values are held, the minimum replaced when v
\* exceeds the maximum, no change otherwise.
ARegisterRuleFollowed ==
    \A i \in Correct :
        LET j == LastRankOf(history[i].heard, "A")
        IN  j >= 0 => a_sets[i] = ARegisterOf(DeliveredAt(history[i].heard, "A", j))

\* C27: the A-response a correct dispatcher emits after an accepted
\* A-broadcast of rank j holds exactly one state for each distinct value of
\* its A-register, hence at least one, and each state cites a seen
\* A-broadcast of rank j that carries the value of the state.
AResponseContent ==
    [][\A i \in Correct :
          Answering(i, "A") =>
              LET b == Answered(i)
                  Shape(m) ==
                      /\ m.sender = i /\ m.step = "A" /\ m.rank = b.rank
                      /\ m.state # <<>>
                      /\ Len(m.state) = Cardinality(Elems(a_sets'[i]))
                      /\ {m.state[k].value : k \in 1 .. Len(m.state)}
                            = {MkAValue(v) : v \in Elems(a_sets'[i])}
                      /\ \A k \in 1 .. Len(m.state) :
                            LET c == heap'.b[m.state[k].broadcast]
                            IN  /\ c \in DOMAIN broadcasts'[i]
                                /\ c.step = "A"
                                /\ c.rank = b.rank
                                /\ c.value = m.state[k].value.value
              IN  EmitsOne(i, Shape)]_vars

\* the B-register rule for one rank: the pair appended while fewer than 2
\* are held; else slot 0 overwritten by a true-pair that is absent or by a
\* false-pair above the maximum value m; no change otherwise
BRegisterRule(reg, flag, v) ==
    LET pair == [value |-> v, flag |-> flag]
        m == IF reg[1].value > reg[2].value THEN reg[1].value ELSE reg[2].value
    IN  IF Len(reg) < 2 THEN Append(reg, pair)
        ELSE IF (flag /\ pair \notin Elems(reg)) \/ (~flag /\ v > m)
             THEN [reg EXCEPT ![1] = pair]
             ELSE reg

RECURSIVE BRegisterOf(_)
BRegisterOf(bs) ==
    IF bs = <<>> THEN <<>>
    ELSE LET b == bs[Len(bs)]
         IN  BRegisterRule(BRegisterOf(SubSeq(bs, 1, Len(bs) - 1)),
                           b.flag = FlagTrue, b.value)

\* C28: the B-register a correct dispatcher answers from never holds more
\* than 2 pairs, and after an accepted B-broadcast of rank j it is the
\* register the rule builds from the accepted B-broadcasts of rank j: the
\* pair appended while fewer than 2 are held, else slot 0 overwritten by an
\* absent true-pair or by a false-pair above the maximum, else no change.
BRegisterRuleFollowed ==
    \A i \in Correct :
        LET j == LastRankOf(history[i].heard, "B")
        IN  /\ Len(b_sets[i]) <= 2
            /\ (j >= 0 /\ dispatcher[i] = "running") =>
                  b_sets[i] = BRegisterOf(DeliveredAt(history[i].heard, "B", j))

\* the highest value of the false-pairs of a register; none: -1 - NegValues
HighestFalse(reg) ==
    LET vs == {reg[k].value : k \in {n \in 1 .. Len(reg) : ~reg[n].flag}}
    IN  IF vs = {} THEN 0 - 1 - NegValues
        ELSE CHOOSE v \in vs : \A w \in vs : w <= v

HasTrue(reg) == \E k \in 1 .. Len(reg) : reg[k].flag

TrueValues(reg) == {MkBValue(reg[k].value, TRUE) : k \in {n \in 1 .. Len(reg) : reg[n].flag}}

FalseValues(reg) == {MkBValue(reg[k].value, FALSE) : k \in {n \in 1 .. Len(reg) : ~reg[n].flag}}

\* C30: after every accepted B-broadcast a correct dispatcher emits exactly
\* one B-response: a single state with a true-pair of its B-register when the
\* register holds only true-pairs, two states (a true-pair, then the highest
\* false-pair) when it holds both kinds, a single state with the highest
\* false-pair when it holds only false-pairs.
BResponseShape ==
    [][\A i \in Correct :
          Answering(i, "B") =>
              LET b == Answered(i)
                  reg == b_sets'[i]
                  top == MkBValue(HighestFalse(reg), FALSE)
                  Shape(m) ==
                      /\ m.sender = i /\ m.step = "B" /\ m.rank = b.rank
                      /\ IF FalseValues(reg) = {}
                         THEN /\ Len(m.state) = 1
                              /\ m.state[1].value \in TrueValues(reg)
                         ELSE IF TrueValues(reg) # {}
                         THEN /\ Len(m.state) = 2
                              /\ m.state[1].value \in TrueValues(reg)
                              /\ m.state[2].value = top
                         ELSE /\ Len(m.state) = 1
                              /\ m.state[1].value = top
              IN  EmitsOne(i, Shape)]_vars

\* the responses the dispatcher of process i has sent that are on a channel
InFlightFrom(i) ==
    UNION {{chan[d][<<i, "run">>][k] : k \in 1 .. Len(chan[d][<<i, "run">>])} :
             d \in Procs}

\* the broadcast c carries the step and rank of the response m and the value
\* and flag of the value v it is cited for (an RValue names its own rank)
Justifies(c, m, v) ==
    /\ c.step = m.step
    /\ c.value = v.value
    /\ c.rank = (IF v.kind = "RValue" THEN v.rank ELSE m.rank)
    /\ v.kind = "BValue" => c.flag = (IF v.flag THEN FlagTrue ELSE FlagFalse)

\* C31: in every response sent by a correct dispatcher, each state cites a
\* seen broadcast with the step, rank, value and (for a B-pair) the flag of
\* the value of that state.
JustificationMatch ==
    \A i \in Correct : \A m \in InFlightFrom(i) :
        \A n \in 1 .. Len(m.state) :
            LET c == heap.b[m.state[n].broadcast]
            IN  c \in DOMAIN broadcasts[i] /\ Justifies(c, m, m.state[n].value)

\* C36: every response sent by a correct dispatcher passes validate_response:
\* each broadcast it cites has the step and the rank of the response.
ResponsesWellFormed ==
    \A i \in Correct : \A m \in InFlightFrom(i) : validate_response(m)

\* the broadcasts process i has sent
SentBy(i) == {heap.b[k] : k \in {n \in 1 .. Len(heap.b) : heap.b[n].sender = i}}

\* the index entry of process i from which the broadcast b is certified
CertifiedFrom(i, b) ==
    MapGet(responses[i], <<PreviousStep(b.step), PreviousRank(b)>>, EmptyMap)

\* the payload of b is what the aggregation of the previous step gives for
\* the entry, walked in some order
ComputedFrom(b, entry) ==
    \E ord \in IterOrders(entry) :
        LET rs == [k \in 1 .. Len(ord) |-> entry[ord[k]]]
        IN  CASE b.step = "R" -> process_b_responses(rs, Threshold) = Adopt(b.value)
              [] b.step = "A" -> /\ process_r_responses(rs) # Panic
                                 /\ process_r_responses(rs).value = b.value
              [] b.step = "B" -> process_a_responses(rs, Threshold)
                                    = <<b.flag = FlagTrue, b.value>>

\* C32: the certificate of every broadcast a correct proposer has sent is
\* the set of 2f+1 responses its index holds for the previous step, at the
\* time of the broadcast and at every later time, whatever the dispatcher has
\* written since, and the broadcast's payload is computed from that set; the
\* R-broadcast of rank 0 carries no certificate.
CertificateComposition ==
    \A i \in Correct : \A b \in SentBy(i) :
        IF b.step = "R" /\ b.rank = 0 THEN ~b.previous_step_responses.some
        ELSE LET entry == CertifiedFrom(i, b)
             IN  /\ b.previous_step_responses.some
                 /\ Len(Certificate(b)) = Threshold
                 /\ Elems(Certificate(b)) = {entry[x] : x \in DOMAIN entry}
                 /\ ComputedFrom(b, entry)

\* the responses of a (step, rank) that reached process i in a group of
\* 2f+1 and found the index entry full
TurnedAway(i, key) ==
    {r \in UNION {pending_responses[i][h] :
                    h \in {g \in DOMAIN pending_responses[i] :
                             Cardinality(pending_responses[i][g]) >= Threshold}} :
        /\ ResponseKey(r) = key
        /\ r.sender \notin DOMAIN MapGet(responses[i], key, EmptyMap)}

\* a correct proposer has sent a certified R-broadcast of a rank above 0 and
\* its dispatcher has since handled a further response for the certifying
\* index entry
CertificateCompositionWitness ==
    \E i \in Correct : \E b \in SentBy(i) :
        /\ b.step = "R" /\ b.rank > 0
        /\ TurnedAway(i, <<"B", b.rank - 1>>) # {}

\* a step of the proposer thread of process i
ProposerStep(i) ==
    \/ pc'[i] # pc[i] \/ stack'[i] # stack[i] \/ locals'[i] # locals[i]
    \/ result'[i] # result[i] \/ history'[i].sent # history[i].sent

\* the dispatcher of process i takes a response from one of its channels
TakesResponse(i) ==
    \E t \in Threads : /\ chan[i][t] # <<>>
                       /\ ~IsBroadcast(Head(chan[i][t]))
                       /\ chan'[i][t] = Tail(chan[i][t])

\* C33: a step of a proposer leaves the response index and the registers of
\* every process unchanged; the index of a process changes only when its
\* dispatcher takes a response, and its R-, A- and B-register only when its
\* dispatcher delivers an accepted R-, A- and B-broadcast respectively.
SingleWriter ==
    [][/\ (\E i \in Procs : ProposerStep(i))
            => UNCHANGED <<responses, r_set, a_sets, b_sets>>
       /\ \A i \in Procs :
            /\ responses'[i] # responses[i] => TakesResponse(i)
            /\ r_set'[i] # r_set[i] => Answering(i, "R")
            /\ a_sets'[i] # a_sets[i] => Answering(i, "A")
            /\ b_sets'[i] # b_sets[i] => Answering(i, "B")]_vars

\* a correct proposer is in its B-step while its dispatcher has raised the
\* R-register, filled the A-register and indexed responses
SingleWriterWitness ==
    \E i \in Correct :
        /\ pc[i] = "b_wait"
        /\ r_set[i] # MkRValue(0, 0)
        /\ a_sets[i] # <<>>
        /\ IndexLen(responses[i], <<"A", 0>>) = Threshold
        /\ \E k \in 1 .. Len(history[i].heard) :
              history[i].heard[k][2] = "true" /\ Bc(history[i].heard[k][1]).step = "A"

\* the dispatcher of process i takes a broadcast that fails
\* reliably_check_broadcast
Rejecting(i) ==
    /\ Len(history'[i].heard) = Len(history[i].heard) + 1
    /\ history'[i].heard[Len(history'[i].heard)][2] = "false"

\* C34: a step in which a correct dispatcher takes a broadcast that fails
\* reliably_check_broadcast leaves its registers, its map of seen broadcasts,
\* its pending responses and its response index unchanged, sends no response
\* and leaves the dispatcher running.
RejectedDropped ==
    [][\A i \in Correct :
          Rejecting(i) =>
              /\ r_set'[i] = r_set[i] /\ a_sets'[i] = a_sets[i]
              /\ b_sets'[i] = b_sets[i]
              /\ broadcasts'[i] = broadcasts[i]
              /\ pending_responses'[i] = pending_responses[i]
              /\ responses'[i] = responses[i]
              /\ dispatcher'[i] = dispatcher[i]
              /\ \A d \in Procs :
                    Len(chan'[d][<<i, "run">>]) <= Len(chan[d][<<i, "run">>])]_vars

\* a correct dispatcher that has accepted broadcasts and indexed responses
\* has taken a broadcast that failed the check
RejectedDroppedWitness ==
    \E i \in Correct :
        /\ \E k \in 1 .. Len(history[i].heard) : history[i].heard[k][2] = "false"
        /\ broadcasts[i] # EmptyMap
        /\ responses[i] # EmptyMap

\* C35: an entry of the response index that holds 2f+1 responses is the
\* same after every step: it keeps its senders and the response of each.
FrozenOnceFull ==
    [][\A i \in Procs : \A key \in DOMAIN responses[i] :
          IndexLen(responses[i], key) = Threshold =>
              /\ key \in DOMAIN responses'[i]
              /\ responses'[i][key] = responses[i][key]]_vars

\* a full entry of a correct process for which a further response, of a
\* sender the entry does not hold, has come in a group of 2f+1
FrozenOnceFullWitness ==
    \E i \in Correct : \E key \in DOMAIN responses[i] :
        /\ IndexLen(responses[i], key) = Threshold
        /\ TurnedAway(i, key) # {}

\* the pending groups of process i that have reached the threshold, each of
\* which has been walked by the promotion loop
PromotedGroups(i) ==
    {pending_responses[i][h] :
       h \in {g \in DOMAIN pending_responses[i] :
                Cardinality(pending_responses[i][g]) >= Threshold}}

\* C38: every pending group of a correct process that has reached the
\* threshold holds responses of at least 2f+1 distinct senders.
PromotionQuorum ==
    \A i \in Correct : \A group \in PromotedGroups(i) :
        Cardinality({r.sender : r \in group}) >= Threshold

\* the outcomes of reliably_check_broadcast for the broadcasts of correct
\* proposers that the dispatcher of process i has taken
ChecksOfCorrect(i) ==
    {history[i].heard[k][2] :
       k \in {n \in 1 .. Len(history[i].heard) :
                Bc(history[i].heard[n][1]).sender \in Correct}}

\* C37: every broadcast of a correct proposer that a correct dispatcher has
\* taken has passed reliably_check_broadcast.
CorrectBroadcastsPass ==
    \A i \in Correct : ChecksOfCorrect(i) \subseteq {"true"}

\* a correct dispatcher has taken, from correct proposers, a certified
\* R-broadcast of a rank above 0, an A-broadcast and a B-broadcast
CorrectBroadcastsPassWitness ==
    \E i \in Correct :
        LET taken == {Bc(history[i].heard[k][1]) : k \in 1 .. Len(history[i].heard)}
        IN  /\ \E b \in taken : b.sender \in Correct /\ b.step = "R" /\ b.rank > 0
            /\ \E b \in taken : b.sender \in Correct /\ b.step = "A"
            /\ \E b \in taken : b.sender \in Correct /\ b.step = "B"

\* C39: at a correct dispatcher that has delivered an accepted R-broadcast,
\* the R-register is the <rank, value> of an R-broadcast in its map of seen
\* broadcasts, so that the lookup of answer_r_broadcast finds one.
RegisterBacked ==
    \A i \in Correct :
        LastRankOf(history[i].heard, "R") >= 0 =>
            Responsible(broadcasts[i], "R", r_set[i].rank, r_set[i].value) # {}

====
